---------------------------- MODULE Spec2Model ----------------------------
(***************************************************************************)
(* Write/read consistency pipeline of the library book service:            *)
(*   - the Book aggregate (business methods, version, event outbox),       *)
(*   - PostgresBookRepository (save / findById / delete, optimistic        *)
(*     concurrency on the version column, READ COMMITTED transactions),    *)
(*   - the five command handlers (load, business method, persist,          *)
(*     publish, clear),                                                    *)
(*   - RabbitMQEventPublisher and the projection consumer,                 *)
(*   - BookProjections on the MongoDB read model,                          *)
(*   - MongoBookReadRepository, the in-memory command bus, the domain      *)
(*     event objects, the value object base classes and the broker         *)
(*     connection of rabbitmq.ts.                                          *)
(*                                                                         *)
(* Fourteen specifications share the definitions:                          *)
(*   Spec          the pipeline with concurrent command handlers,          *)
(*   SpecAgg       one client driving the business methods of a Book,      *)
(*   SpecRepo      one client driving a Book and the repository,           *)
(*   SpecProj      the projection handlers applied to read-store states,   *)
(*   SpecConsumer  the projection consumer on its queue,                   *)
(*   SpecPublish   a caller handing an outbox to publishAll,               *)
(*   SpecQuery     one command handler, the consumer and the read queries, *)
(*   SpecEvent     construction of events and withCorrelation,             *)
(*   SpecBus       register / execute / clear on the command bus,          *)
(*   SpecValue     equals on value objects,                                *)
(*   SpecSync      one caller's commands and the consumer, no failures,    *)
(*   SpecRace      two concurrent handlers and the consumer, no failures,  *)
(*   SpecCreate    concurrent CreateBook commands on the bootstrap schema, *)
(*   SpecConn      connectRabbitMQ, closeRabbitMQ and connection loss.     *)
(***************************************************************************)
EXTENDS Integers, Sequences, FiniteSets, TLC

(***************************************************************************)
(* Values.  null strings and null numbers are kept apart so that the       *)
(* nullable number fields (yearRead, rating, page) stay comparable.        *)
(***************************************************************************)
NullS == "null"
NullN == -1

\* new Date().getFullYear() as read by validateYearRead and changeStatus
CurrentYear == 2026
MinYear == 1900
MIN_PAGES == 1
MAX_PAGES == 50000
MIN_RATING == 1
MAX_RATING == 5

TO_READ == "TO_READ"
READING == "READING"
FINISHED == "FINISHED"
ABANDONED == "ABANDONED"
ReadingStatus == {TO_READ, READING, FINISHED, ABANDONED}

\* ReadingStatusUtils.getAllowedTransitions
getAllowedTransitions(status) ==
  CASE status = TO_READ   -> {READING}
    [] status = READING   -> {FINISHED, ABANDONED, TO_READ}
    [] status = FINISHED  -> {READING}
    [] status = ABANDONED -> {READING, TO_READ}

\* faulty variant: FINISHED is also reachable from ABANDONED
canTransitionLoose(from, to) ==
  to \in getAllowedTransitions(from) \/ (from = ABANDONED /\ to = FINISHED)

\* ReadingStatusUtils.canTransition
canTransition(from, to) == to \in getAllowedTransitions(from)

(***************************************************************************)
(* Errors.  An error is the pair (class name, code) a caller can observe.  *)
(***************************************************************************)
NoErr == [name |-> "none", code |-> "none"]
DomainException(code) == [name |-> "DomainException", code |-> code]
EntityNotFoundException == [name |-> "EntityNotFoundException", code |-> "ENTITY_NOT_FOUND"]
BusinessRuleViolationException ==
  [name |-> "BusinessRuleViolationException", code |-> "BUSINESS_RULE_VIOLATION"]
ConcurrencyException == [name |-> "ConcurrencyException", code |-> "CONCURRENCY_CONFLICT"]
\* a plain `new Error(message)`: no code, only the message text
PlainError(message) == [name |-> "Error", code |-> message]

(***************************************************************************)
(* Value objects.  Strings are drawn from small sets; normalisation is     *)
(* the table of what trim()/replace() do on those strings.                 *)
(***************************************************************************)
\* Title.normalize: trim and collapse inner whitespace
TitleNormalize(t) ==
  CASE t = " t2 " -> "t2"
    [] t = "  "   -> ""
    [] OTHER      -> t

\* Title.create: [ok, value]
TitleCreate(t) ==
  IF t = "" \/ TitleNormalize(t) = ""
  THEN [ok |-> FALSE, value |-> NullS]
  ELSE [ok |-> TRUE, value |-> TitleNormalize(t)]

\* PageCount.create
PageCountValid(p) == p >= MIN_PAGES /\ p <= MAX_PAGES

\* Rating.create
RatingValid(r) == r >= MIN_RATING /\ r <= MAX_RATING

\* Book.validateYearRead
YearValid(y) == y >= MinYear /\ y <= CurrentYear + 1

\* ISBN.normalize: dashes and spaces removed
IsbnNormalize(i) ==
  CASE i = "978-1" -> "9781"
    [] OTHER       -> i

\* ISBN.isValid on the normalised string (checksum)
IsbnValid(i) == IsbnNormalize(i) \in {"9781", "9782"}

\* coverUrl?.trim() || null
CoverNormalize(c) == IF c \in {"", " "} THEN NullS ELSE c


(***************************************************************************)
(* The Book aggregate.  A book is the record of BookState plus the         *)
(* AggregateRoot fields (version, domainEvents).  A business method takes  *)
(* the values the code draws from its environment (the clock `now`, fresh  *)
(* uuids) as arguments and returns [book, err]: the aggregate as the call  *)
(* leaves it, and the exception it raised (NoErr when it returned).        *)
(***************************************************************************)
NoBook == [id |-> 0]

Has(r, f) == f \in DOMAIN r

\* content.trim() of Quote.create / Note.create
ContentTrim(c) == IF c = " " THEN "" ELSE c

DomainEvent(eid, name, payload) == [eventId |-> eid, eventName |-> name, payload |-> payload]

\* faulty variant: the event is dropped instead of pushed to the outbox
addDomainEventDropped(b, ev) == b

\* AggregateRoot.addDomainEvent
addDomainEvent(b, ev) == [b EXCEPT !.domainEvents = Append(@, ev)]

\* AggregateRoot.clearDomainEvents
clearDomainEvents(b) == [b EXCEPT !.domainEvents = <<>>]

\* AggregateRoot.hasUncommittedEvents
hasUncommittedEvents(b) == Len(b.domainEvents) > 0

Throw(b, e) == [book |-> b, err |-> e]
Return(b) == [book |-> b, err |-> NoErr]

\* AggregateRoot._version initial value
NewAggregateVersion == 0

\* Book.create
create(props, id, now, eid) ==
  LET title  == TitleCreate(props.title)
      isbnIn == Has(props, "isbn") /\ props.isbn # ""
      rateIn == Has(props, "rating") /\ props.rating # 0
      status == IF Has(props, "status") THEN props.status ELSE TO_READ
      yearRead == IF Has(props, "yearRead") THEN props.yearRead ELSE NullN
      isbn   == IF isbnIn THEN IsbnNormalize(props.isbn) ELSE NullS
      rating == IF rateIn THEN props.rating ELSE NullN
      state  == [id |-> id,
                 title |-> title.value,
                 authorId |-> props.authorId,
                 pageCount |-> props.pageCount,
                 isbn |-> isbn,
                 yearRead |-> yearRead,
                 status |-> status,
                 rating |-> rating,
                 coverUrl |-> IF Has(props, "coverUrl")
                              THEN CoverNormalize(props.coverUrl) ELSE NullS,
                 quotes |-> <<>>,
                 notes |-> <<>>,
                 createdAt |-> now,
                 updatedAt |-> now,
                 version |-> NewAggregateVersion,
                 domainEvents |-> <<>>]
  IN  IF ~title.ok THEN Throw(NoBook, DomainException("INVALID_TITLE"))
      ELSE IF ~PageCountValid(props.pageCount)
        THEN Throw(NoBook, DomainException("INVALID_PAGE_COUNT"))
      ELSE IF isbnIn /\ ~IsbnValid(props.isbn)
        THEN Throw(NoBook, DomainException("INVALID_ISBN"))
      ELSE IF rateIn /\ ~RatingValid(props.rating)
        THEN Throw(NoBook, DomainException("INVALID_RATING"))
      ELSE IF props.authorId = ""
        THEN Throw(NoBook, DomainException("INVALID_BOOK"))
      ELSE IF yearRead # NullN /\ ~YearValid(yearRead)
        THEN Throw(NoBook, DomainException("INVALID_YEAR"))
      ELSE IF status = FINISHED /\ yearRead = NullN
        THEN Throw(NoBook, DomainException("INVALID_BOOK"))
      ELSE Return(addDomainEvent(state,
             DomainEvent(eid, "library.book.created",
               [bookId |-> id, title |-> title.value, authorId |-> props.authorId,
                pageCount |-> props.pageCount, isbn |-> isbn,
                yearRead |-> yearRead, status |-> status])))

\* faulty variant: the aggregate is rebuilt the way create builds it, with a
\* created event in its outbox
reconstituteRaisesCreated(props) ==
  [id |-> props.id, title |-> props.title, authorId |-> props.authorId,
   pageCount |-> props.pageCount, isbn |-> props.isbn, yearRead |-> props.yearRead,
   status |-> props.status, rating |-> props.rating, coverUrl |-> props.coverUrl,
   quotes |-> props.quotes, notes |-> props.notes,
   createdAt |-> props.createdAt, updatedAt |-> props.updatedAt,
   version |-> props.version,
   domainEvents |-> <<DomainEvent(0, "library.book.created", [bookId |-> props.id])>>]

\* Book.reconstitute: value objects rebuilt without validation, no event
reconstitute(props) ==
  [id |-> props.id, title |-> props.title, authorId |-> props.authorId,
   pageCount |-> props.pageCount, isbn |-> props.isbn, yearRead |-> props.yearRead,
   status |-> props.status, rating |-> props.rating, coverUrl |-> props.coverUrl,
   quotes |-> props.quotes, notes |-> props.notes,
   createdAt |-> props.createdAt, updatedAt |-> props.updatedAt,
   version |-> props.version, domainEvents |-> <<>>]

(***************************************************************************)
(* updateDetails handles the supplied fields one after the other; a field  *)
(* that fails validation throws after the earlier fields were assigned.    *)
(* Each step maps [book, actual, err] to the next.                         *)
(***************************************************************************)
updTitle(s, ch) ==
  IF s.err # NoErr \/ ~Has(ch, "title") THEN s
  ELSE LET t == TitleCreate(ch.title)
       IN  IF ~t.ok THEN [s EXCEPT !.err = DomainException("INVALID_TITLE")]
           ELSE IF t.value # s.book.title
             THEN [s EXCEPT !.book.title = t.value,
                            !.actual = @ @@ [title |-> t.value]]
             ELSE s

updPageCount(s, ch) ==
  IF s.err # NoErr \/ ~Has(ch, "pageCount") THEN s
  ELSE IF ~PageCountValid(ch.pageCount)
         THEN [s EXCEPT !.err = DomainException("INVALID_PAGE_COUNT")]
       ELSE IF ch.pageCount # s.book.pageCount
         THEN [s EXCEPT !.book.pageCount = ch.pageCount,
                        !.actual = @ @@ [pageCount |-> ch.pageCount]]
         ELSE s

updYearRead(s, ch) ==
  IF s.err # NoErr \/ ~Has(ch, "yearRead") THEN s
  ELSE IF ch.yearRead # NullN /\ ~YearValid(ch.yearRead)
         THEN [s EXCEPT !.err = DomainException("INVALID_YEAR")]
       ELSE IF ch.yearRead # s.book.yearRead
         THEN [s EXCEPT !.book.yearRead = ch.yearRead,
                        !.actual = @ @@ [yearRead |-> ch.yearRead]]
         ELSE s

updRating(s, ch) ==
  IF s.err # NoErr \/ ~Has(ch, "rating") THEN s
  ELSE IF ch.rating # NullN /\ ~RatingValid(ch.rating)
         THEN [s EXCEPT !.err = DomainException("INVALID_RATING")]
       \* newRating?.value !== currentRating: for a null newRating the left side
       \* is undefined, which differs from every current rating, null included
       ELSE IF ch.rating = NullN \/ ch.rating # s.book.rating
         THEN [s EXCEPT !.book.rating = ch.rating,
                        !.actual = @ @@ [rating |-> ch.rating]]
         ELSE s

updCoverUrl(s, ch) ==
  IF s.err # NoErr \/ ~Has(ch, "coverUrl") THEN s
  ELSE IF CoverNormalize(ch.coverUrl) # s.book.coverUrl
         THEN [s EXCEPT !.book.coverUrl = CoverNormalize(ch.coverUrl),
                        !.actual = @ @@ [coverUrl |-> CoverNormalize(ch.coverUrl)]]
         ELSE s

\* Book.updateDetails
updateDetails(b, changes, now, eid) ==
  LET s == updCoverUrl(updRating(updYearRead(updPageCount(updTitle(
             [book |-> b, actual |-> <<>>, err |-> NoErr],
             changes), changes), changes), changes), changes)
  IN  IF s.err # NoErr THEN Throw(s.book, s.err)
      ELSE IF DOMAIN s.actual # {}
        THEN Return(addDomainEvent([s.book EXCEPT !.updatedAt = now],
               DomainEvent(eid, "library.book.updated",
                 [bookId |-> b.id, changes |-> s.actual, updatedAt |-> now])))
        ELSE Return(s.book)

\* Book.changeStatus
changeStatus(b, newStatus, now, eid) ==
  IF b.status = newStatus THEN Return(b)
  ELSE IF ~canTransition(b.status, newStatus)
    THEN Throw(b, DomainException("INVALID_STATUS_TRANSITION"))
  ELSE LET b1 == addDomainEvent([b EXCEPT !.status = newStatus, !.updatedAt = now],
                   DomainEvent(eid, "library.book.updated",
                     [bookId |-> b.id, changes |-> [status |-> newStatus],
                      updatedAt |-> now]))
       IN  IF newStatus = FINISHED /\ b.yearRead = NullN
           THEN Return([b1 EXCEPT !.yearRead = CurrentYear])
           ELSE Return(b1)

\* faulty variant: the event carries the new rating, the state keeps the old one
markAsFinishedRatingNotStored(b, args, now, eid) ==
  IF ~YearValid(args.yearRead) THEN Throw(b, DomainException("INVALID_YEAR"))
  ELSE IF Has(args, "rating") /\ ~RatingValid(args.rating)
    THEN Throw(b, DomainException("INVALID_RATING"))
  ELSE LET newRating == IF Has(args, "rating") THEN args.rating ELSE b.rating
       IN  Return(addDomainEvent(
             [b EXCEPT !.status = FINISHED, !.yearRead = args.yearRead,
                       !.updatedAt = now],
             DomainEvent(eid, "library.book.finished",
               [bookId |-> b.id, authorId |-> b.authorId, title |-> b.title,
                pageCount |-> b.pageCount, yearRead |-> args.yearRead,
                rating |-> newRating, finishedAt |-> now])))

\* Book.markAsFinished; args = [yearRead] or [yearRead, rating]
markAsFinished(b, args, now, eid) ==
  IF ~YearValid(args.yearRead) THEN Throw(b, DomainException("INVALID_YEAR"))
  ELSE IF Has(args, "rating") /\ ~RatingValid(args.rating)
    THEN Throw(b, DomainException("INVALID_RATING"))
  ELSE LET newRating == IF Has(args, "rating") THEN args.rating ELSE b.rating
       IN  Return(addDomainEvent(
             [b EXCEPT !.status = FINISHED, !.yearRead = args.yearRead,
                       !.rating = newRating, !.updatedAt = now],
             DomainEvent(eid, "library.book.finished",
               [bookId |-> b.id, authorId |-> b.authorId, title |-> b.title,
                pageCount |-> b.pageCount, yearRead |-> args.yearRead,
                rating |-> newRating, finishedAt |-> now])))

\* Quote.create; page = NullN when not supplied
QuoteCreate(bookId, content, page, qid, now) ==
  IF content = "" \/ ContentTrim(content) = "" \/ (page # NullN /\ page < 1)
  THEN [ok |-> FALSE, quote |-> [id |-> 0]]
  ELSE [ok |-> TRUE,
        quote |-> [id |-> qid, bookId |-> bookId, content |-> ContentTrim(content),
                   page |-> page, createdAt |-> now]]

\* Book.addQuote
addQuote(b, content, page, qid, now, eid) ==
  LET q == QuoteCreate(b.id, content, page, qid, now)
  IN  IF ~q.ok THEN Throw(b, DomainException("INVALID_QUOTE"))
      ELSE Return(addDomainEvent(
             [b EXCEPT !.quotes = Append(@, q.quote), !.updatedAt = now],
             DomainEvent(eid, "library.book.quote_added",
               [bookId |-> b.id, quoteId |-> qid, content |-> q.quote.content,
                page |-> page])))

RemoveAt(seq, i) == SubSeq(seq, 1, i - 1) \o SubSeq(seq, i + 1, Len(seq))
IndexOfId(seq, id) ==
  IF \E i \in 1..Len(seq) : seq[i].id = id
  THEN CHOOSE i \in 1..Len(seq) : seq[i].id = id /\ \A j \in 1..(i - 1) : seq[j].id # id
  ELSE 0

\* Book.removeQuote
removeQuote(b, quoteId, now) ==
  IF IndexOfId(b.quotes, quoteId) = 0 THEN Throw(b, DomainException("QUOTE_NOT_FOUND"))
  ELSE Return([b EXCEPT !.quotes = RemoveAt(@, IndexOfId(b.quotes, quoteId)),
                        !.updatedAt = now])

\* Note.create; chapter = NullS when not supplied
NoteCreate(bookId, content, chapter, nid, now) ==
  IF content = "" \/ ContentTrim(content) = ""
  THEN [ok |-> FALSE, note |-> [id |-> 0]]
  ELSE [ok |-> TRUE,
        note |-> [id |-> nid, bookId |-> bookId, content |-> ContentTrim(content),
                  chapter |-> chapter, createdAt |-> now, updatedAt |-> now]]

\* Book.addNote
addNote(b, content, chapter, nid, now) ==
  LET n == NoteCreate(b.id, content, chapter, nid, now)
  IN  IF ~n.ok THEN Throw(b, DomainException("INVALID_NOTE"))
      ELSE Return([b EXCEPT !.notes = Append(@, n.note), !.updatedAt = now])

\* Book.removeNote
removeNote(b, noteId, now) ==
  IF IndexOfId(b.notes, noteId) = 0 THEN Throw(b, DomainException("NOTE_NOT_FOUND"))
  ELSE Return([b EXCEPT !.notes = RemoveAt(@, IndexOfId(b.notes, noteId)),
                        !.updatedAt = now])

\* Note.updateContent on the i-th note handed out by the notes getter
NoteUpdateContent(b, i, content, now) ==
  IF content = "" \/ ContentTrim(content) = ""
  THEN Throw(b, DomainException("INVALID_NOTE"))
  ELSE Return([b EXCEPT !.notes[i].content = ContentTrim(content),
                        !.notes[i].updatedAt = now])

\* Book.markAsDeleted
markAsDeleted(b, eid) ==
  Return(addDomainEvent(b,
    DomainEvent(eid, "library.book.deleted",
      [bookId |-> b.id, authorId |-> b.authorId, pageCount |-> b.pageCount,
       yearRead |-> b.yearRead])))

\* the externally observable state of an aggregate: Book.toObject without
\* the version (the outbox is not part of it)
Observable(b) ==
  [id |-> b.id, title |-> b.title, authorId |-> b.authorId, pageCount |-> b.pageCount,
   isbn |-> b.isbn, yearRead |-> b.yearRead, status |-> b.status, rating |-> b.rating,
   coverUrl |-> b.coverUrl, quotes |-> b.quotes, notes |-> b.notes,
   createdAt |-> b.createdAt, updatedAt |-> b.updatedAt]


(***************************************************************************)
(* PostgresBookRepository.  The write store is the three tables; a book    *)
(* row is absent (NoRow) or the BookRow record.  Each operator below is    *)
(* one SQL statement of the repository.                                    *)
(***************************************************************************)
NoRow == [id |-> 0]

\* the values of INSERT INTO books: version = book.version + 1
BookRowOf(book) ==
  [id |-> book.id, title |-> book.title, author_id |-> book.authorId,
   page_count |-> book.pageCount, isbn |-> book.isbn, year_read |-> book.yearRead,
   status |-> book.status, rating |-> book.rating, cover_url |-> book.coverUrl,
   version |-> book.version + 1, created_at |-> book.createdAt,
   updated_at |-> book.updatedAt]

\* existsInTransaction: SELECT EXISTS(SELECT 1 FROM books WHERE id = $1)
existsInTransaction(bks, id) == bks[id] # NoRow

\* the isbn column is UNIQUE
IsbnTaken(bks, book) ==
  book.isbn # NullS /\ \E i \in DOMAIN bks : bks[i] # NoRow /\ bks[i].isbn = book.isbn

\* PostgresBookRepository.insert
insert(bks, book) == [bks EXCEPT ![book.id] = BookRowOf(book)]

\* faulty variant: UPDATE ... WHERE id = $1, without the version condition
updateMatchesAnyVersion(row, book) == row # NoRow

\* the WHERE clause of PostgresBookRepository.update
updateMatches(row, book) == row # NoRow /\ row.version = book.version

\* the SET clause of PostgresBookRepository.update (author_id and created_at
\* are not written)
updateSet(row, book) ==
  [row EXCEPT !.title = book.title, !.page_count = book.pageCount, !.isbn = book.isbn,
              !.year_read = book.yearRead, !.status = book.status,
              !.rating = book.rating, !.cover_url = book.coverUrl,
              !.version = row.version + 1, !.updated_at = book.updatedAt]

\* PostgresBookRepository.update: [rowCount, books]
update(bks, book) ==
  IF updateMatches(bks[book.id], book)
  THEN [rowCount |-> 1, books |-> [bks EXCEPT ![book.id] = updateSet(@, book)]]
  ELSE [rowCount |-> 0, books |-> bks]

SeqToSet(seq) == {seq[i] : i \in 1..Len(seq)}
IdsOf(seq) == {seq[i].id : i \in 1..Len(seq)}

QuoteRowOf(q) ==
  [id |-> q.id, book_id |-> q.bookId, content |-> q.content, page |-> q.page,
   created_at |-> q.createdAt]

\* faulty variant: the rows of quotes the aggregate no longer holds are kept
syncQuotesKeepsRemoved(qs, book) ==
  LET existingIds == {r.id : r \in {x \in qs : x.book_id = book.id}}
      updated     == {IF \E q \in SeqToSet(book.quotes) : q.id = r.id /\ r.id \in existingIds
                      THEN LET q == CHOOSE q \in SeqToSet(book.quotes) : q.id = r.id
                           IN  [r EXCEPT !.content = q.content, !.page = q.page]
                      ELSE r : r \in qs}
      inserted    == {QuoteRowOf(q) : q \in {x \in SeqToSet(book.quotes) : x.id \notin existingIds}}
  IN  updated \cup inserted

\* PostgresBookRepository.syncQuotes: the quotes table after the statements
syncQuotes(qs, book) ==
  LET existingIds == {r.id : r \in {x \in qs : x.book_id = book.id}}
      currentIds  == IdsOf(book.quotes)
      afterDelete == {r \in qs : ~(r.id \in existingIds /\ r.id \notin currentIds)}
      updated     == {IF \E q \in SeqToSet(book.quotes) : q.id = r.id /\ r.id \in existingIds
                      THEN LET q == CHOOSE q \in SeqToSet(book.quotes) : q.id = r.id
                           IN  [r EXCEPT !.content = q.content, !.page = q.page]
                      ELSE r : r \in afterDelete}
      inserted    == {QuoteRowOf(q) : q \in {x \in SeqToSet(book.quotes) : x.id \notin existingIds}}
  IN  updated \cup inserted

\* the notes table has no updated_at column
NoteRowOf(n) ==
  [id |-> n.id, book_id |-> n.bookId, content |-> n.content, chapter |-> n.chapter,
   created_at |-> n.createdAt]

\* PostgresBookRepository.syncNotes
syncNotes(ns, book) ==
  LET existingIds == {r.id : r \in {x \in ns : x.book_id = book.id}}
      currentIds  == IdsOf(book.notes)
      afterDelete == {r \in ns : ~(r.id \in existingIds /\ r.id \notin currentIds)}
      updated     == {IF \E n \in SeqToSet(book.notes) : n.id = r.id /\ r.id \in existingIds
                      THEN LET n == CHOOSE n \in SeqToSet(book.notes) : n.id = r.id
                           IN  [r EXCEPT !.content = n.content, !.chapter = n.chapter]
                      ELSE r : r \in afterDelete}
      inserted    == {NoteRowOf(n) : n \in {x \in SeqToSet(book.notes) : x.id \notin existingIds}}
  IN  updated \cup inserted

\* ORDER BY created_at (rows of one book; ids break ties)
RECURSIVE OrderByCreatedAt(_)
OrderByCreatedAt(rows) ==
  IF rows = {} THEN <<>>
  ELSE LET first == CHOOSE r \in rows :
                      \A o \in rows : r.created_at < o.created_at
                                      \/ (r.created_at = o.created_at /\ r.id <= o.id)
       IN  <<first>> \o OrderByCreatedAt(rows \ {first})

QuoteReconstitute(row) ==
  [id |-> row.id, bookId |-> row.book_id, content |-> row.content, page |-> row.page,
   createdAt |-> row.created_at]

\* toAggregate: updatedAt of a note is read from created_at
NoteReconstitute(row) ==
  [id |-> row.id, bookId |-> row.book_id, content |-> row.content,
   chapter |-> row.chapter, createdAt |-> row.created_at, updatedAt |-> row.created_at]

\* PostgresBookRepository.toAggregate
toAggregate(bookRow, quoteRows, noteRows) ==
  reconstitute(
    [id |-> bookRow.id, title |-> bookRow.title, authorId |-> bookRow.author_id,
     pageCount |-> bookRow.page_count, isbn |-> bookRow.isbn,
     yearRead |-> bookRow.year_read, status |-> bookRow.status,
     rating |-> bookRow.rating, coverUrl |-> bookRow.cover_url,
     quotes |-> [i \in 1..Len(quoteRows) |-> QuoteReconstitute(quoteRows[i])],
     notes |-> [i \in 1..Len(noteRows) |-> NoteReconstitute(noteRows[i])],
     version |-> bookRow.version, createdAt |-> bookRow.created_at,
     updatedAt |-> bookRow.updated_at])

\* the rows of one book, as the queries of findById return them
QuotesOf(qs, id) == OrderByCreatedAt({r \in qs : r.book_id = id})
NotesOf(ns, id) == OrderByCreatedAt({r \in ns : r.book_id = id})

\* PostgresBookRepository.findById with no writer in between: NoBook for null
findById(bks, qs, ns, id) ==
  IF bks[id] = NoRow THEN NoBook
  ELSE toAggregate(bks[id], QuotesOf(qs, id), NotesOf(ns, id))

\* faulty variant: the foreign keys of quotes and notes do not cascade
deleteBookRowOnly(bks, qs, ns, id) ==
  [books |-> [bks EXCEPT ![id] = NoRow], quotes |-> qs, notes |-> ns]

\* DELETE FROM books WHERE id = $1, with ON DELETE CASCADE on quotes and notes
deleteCascade(bks, qs, ns, id) ==
  [books |-> [bks EXCEPT ![id] = NoRow],
   quotes |-> {r \in qs : r.book_id # id},
   notes |-> {r \in ns : r.book_id # id}]

\* PostgresBookRepository.save run as one transaction with no concurrent
\* writer: [err, books, quotes, notes]; a thrown statement rolls back
save(bks, qs, ns, book) ==
  LET unchanged(e) == [err |-> e, books |-> bks, quotes |-> qs, notes |-> ns]
  IN  IF existsInTransaction(bks, book.id)
      THEN LET u == update(bks, book)
           IN  IF u.rowCount = 0
               THEN unchanged(PlainError("Optimistic concurrency conflict"))
               ELSE IF IsbnTaken([bks EXCEPT ![book.id] = NoRow], book)
                 THEN unchanged(PlainError("unique_violation"))
               ELSE [err |-> NoErr, books |-> u.books,
                     quotes |-> syncQuotes(qs, book), notes |-> syncNotes(ns, book)]
      ELSE IF IsbnTaken(bks, book)
        THEN unchanged(PlainError("unique_violation"))
        ELSE [err |-> NoErr, books |-> insert(bks, book),
              quotes |-> syncQuotes(qs, book), notes |-> syncNotes(ns, book)]


(***************************************************************************)
(* Messaging.  A published message is JSON.stringify(event.toJSON()); the  *)
(* consumer hands JSON.parse of it to the projection router.  A Date of    *)
(* the payload arrives as its ISO string, every other payload value as it  *)
(* was.                                                                    *)
(***************************************************************************)
\* Date.prototype.toJSON
IsoString(t) == [iso |-> t]

\* new Date() as a value stored in a read document (a BSON date, unlike the
\* string a payload's date has become)
DateValue(t) == [date |-> t]

\* JSON.parse(JSON.stringify(event.toJSON())), reduced to what the router reads
ToJSON(ev) ==
  [eventId |-> ev.eventId, eventName |-> ev.eventName,
   payload |->
     IF Has(ev.payload, "updatedAt")
       THEN [ev.payload EXCEPT !.updatedAt = IsoString(@)]
     ELSE IF Has(ev.payload, "finishedAt")
       THEN [ev.payload EXCEPT !.finishedAt = IsoString(@)]
     ELSE ev.payload]

(***************************************************************************)
(* BookProjections on the read store (the MongoDB books collection: book   *)
(* id -> BookDocument or NoDoc).  A handler returns [store, threw].        *)
(***************************************************************************)
NoDoc == [_id |-> 0]

Applied(store) == [store |-> store, threw |-> FALSE]
Threw(store) == [store |-> store, threw |-> TRUE]

\* BookProjections.fetchAuthorName (placeholder)
fetchAuthorName(authorId) == <<"Author", authorId>>

\* BookProjections.onBookCreated: insertOne fails on a duplicate _id
onBookCreated(store, payload, now) ==
  IF store[payload.bookId] # NoDoc THEN Threw(store)
  ELSE Applied([store EXCEPT ![payload.bookId] =
         [_id |-> payload.bookId, title |-> payload.title, authorId |-> payload.authorId,
          authorName |-> fetchAuthorName(payload.authorId),
          pageCount |-> payload.pageCount, isbn |-> payload.isbn,
          yearRead |-> payload.yearRead, status |-> payload.status,
          rating |-> NullN, coverUrl |-> NullS, quotes |-> <<>>, notes |-> <<>>,
          quotesCount |-> 0, notesCount |-> 0, createdAt |-> DateValue(now),
          updatedAt |-> DateValue(now)]])

\* faulty variant: updateOne with { upsert: true }
onBookUpdatedUpsert(store, payload) ==
  IF store[payload.bookId] = NoDoc
  THEN Applied([store EXCEPT ![payload.bookId] =
         [_id |-> payload.bookId, updatedAt |-> payload.updatedAt] @@ payload.changes])
  ELSE LET ch == payload.changes
           d  == store[payload.bookId]
       IN  Applied([store EXCEPT ![payload.bookId] =
             [d EXCEPT !.updatedAt = payload.updatedAt,
                       !.title = IF Has(ch, "title") THEN ch.title ELSE @,
                       !.pageCount = IF Has(ch, "pageCount") THEN ch.pageCount ELSE @,
                       !.yearRead = IF Has(ch, "yearRead") THEN ch.yearRead ELSE @,
                       !.rating = IF Has(ch, "rating") THEN ch.rating ELSE @,
                       !.status = IF Has(ch, "status") THEN ch.status ELSE @]])

\* faulty variant: a change is applied only when its value is truthy
onBookUpdatedSkipsNull(store, payload) ==
  IF store[payload.bookId] = NoDoc THEN Applied(store)
  ELSE LET ch == payload.changes
           d  == store[payload.bookId]
       IN  Applied([store EXCEPT ![payload.bookId] =
             [d EXCEPT !.updatedAt = payload.updatedAt,
                       !.title = IF Has(ch, "title") THEN ch.title ELSE @,
                       !.pageCount = IF Has(ch, "pageCount") THEN ch.pageCount ELSE @,
                       !.yearRead = IF Has(ch, "yearRead") /\ ch.yearRead # NullN
                                    THEN ch.yearRead ELSE @,
                       !.rating = IF Has(ch, "rating") /\ ch.rating # NullN
                                  THEN ch.rating ELSE @,
                       !.status = IF Has(ch, "status") THEN ch.status ELSE @]])

\* BookProjections.onBookUpdated: updateOne with $set, no upsert
onBookUpdated(store, payload) ==
  IF store[payload.bookId] = NoDoc THEN Applied(store)
  ELSE LET ch == payload.changes
           d  == store[payload.bookId]
       IN  Applied([store EXCEPT ![payload.bookId] =
             [d EXCEPT !.updatedAt = payload.updatedAt,
                       !.title = IF Has(ch, "title") THEN ch.title ELSE @,
                       !.pageCount = IF Has(ch, "pageCount") THEN ch.pageCount ELSE @,
                       !.yearRead = IF Has(ch, "yearRead") THEN ch.yearRead ELSE @,
                       !.rating = IF Has(ch, "rating") THEN ch.rating ELSE @,
                       !.status = IF Has(ch, "status") THEN ch.status ELSE @]])

\* BookProjections.onBookDeleted: deleteOne
onBookDeleted(store, payload) == Applied([store EXCEPT ![payload.bookId] = NoDoc])

\* faulty variant: the quote is pushed by one updateOne and the counter is
\* incremented by a second one that is not reached
onQuoteAddedPushOnly(store, payload, now) ==
  IF store[payload.bookId] = NoDoc THEN Applied(store)
  ELSE Applied([store EXCEPT ![payload.bookId] =
         [@ EXCEPT !.quotes = Append(@, [id |-> payload.quoteId,
                                         content |-> payload.content,
                                         page |-> payload.page, createdAt |-> DateValue(now)]),
                   !.updatedAt = DateValue(now)]])

\* BookProjections.onQuoteAdded: updateOne with $push, $inc, $set
onQuoteAdded(store, payload, now) ==
  IF store[payload.bookId] = NoDoc THEN Applied(store)
  ELSE Applied([store EXCEPT ![payload.bookId] =
         [@ EXCEPT !.quotes = Append(@, [id |-> payload.quoteId,
                                         content |-> payload.content,
                                         page |-> payload.page, createdAt |-> DateValue(now)]),
                   !.quotesCount = @ + 1,
                   !.updatedAt = DateValue(now)]])

\* createProjectionRouter: the handler subscribed to library.book.*
router(store, event, now) ==
  CASE event.eventName = "library.book.created" ->
         onBookCreated(store, event.payload, now)
    [] event.eventName = "library.book.updated" ->
         onBookUpdated(store, event.payload)
    [] event.eventName = "library.book.deleted" ->
         onBookDeleted(store, event.payload)
    [] event.eventName = "library.book.quote_added" ->
         onQuoteAdded(store, event.payload, now)
    [] event.eventName = "library.book.finished" ->
         onBookUpdated(store,
           [bookId |-> event.payload.bookId,
            changes |-> [status |-> FINISHED, yearRead |-> event.payload.yearRead,
                         rating |-> event.payload.rating],
            updatedAt |-> DateValue(now)])
    [] OTHER -> Applied(store)


(***************************************************************************)
(* MongoBookReadRepository: queries on the read store.  A query returns    *)
(* its result; none of them has a write among its collection calls.        *)
(***************************************************************************)
\* the null a query returns for no document
NullDto == [id |-> 0]

\* MongoBookReadRepository.toDetailsDto
toDetailsDto(doc) ==
  [id |-> doc._id, title |-> doc.title, authorId |-> doc.authorId,
   authorName |-> doc.authorName, pageCount |-> doc.pageCount, isbn |-> doc.isbn,
   yearRead |-> doc.yearRead, status |-> doc.status, rating |-> doc.rating,
   coverUrl |-> doc.coverUrl,
   quotes |-> [i \in 1..Len(doc.quotes) |->
                [id |-> doc.quotes[i].id, content |-> doc.quotes[i].content,
                 page |-> doc.quotes[i].page, createdAt |-> doc.quotes[i].createdAt]],
   notes |-> [i \in 1..Len(doc.notes) |->
               [id |-> doc.notes[i].id, content |-> doc.notes[i].content,
                chapter |-> doc.notes[i].chapter, createdAt |-> doc.notes[i].createdAt,
                updatedAt |-> doc.notes[i].createdAt]],
   createdAt |-> doc.createdAt, updatedAt |-> doc.updatedAt]

\* MongoBookReadRepository.findById: findOne({ _id })
readFindById(store, bookId) ==
  IF store[bookId] = NoDoc THEN NullDto ELSE toDetailsDto(store[bookId])

\* MongoBookReadRepository.countByYear: countDocuments({ yearRead: year })
countByYear(store, year) ==
  Cardinality({i \in DOMAIN store : store[i] # NoDoc /\ store[i].yearRead = year})

\* (years as number[]).sort((a, b) => b - a)
RECURSIVE SortDescending(_)
SortDescending(S) ==
  IF S = {} THEN <<>>
  ELSE LET m == CHOOSE x \in S : \A y \in S : y <= x
       IN  <<m>> \o SortDescending(S \ {m})

\* MongoBookReadRepository.getAvailableYears: distinct('yearRead', { $ne: null })
getAvailableYears(store) ==
  SortDescending({store[i].yearRead :
                    i \in {j \in DOMAIN store : store[j] # NoDoc /\ store[j].yearRead # NullN}})

(***************************************************************************)
(* InMemoryCommandBus: handlers is the Map from the name of a command      *)
(* class to the handler registered for it (NoHandler: no entry).  A call   *)
(* returns [handlers, err, result].                                        *)
(***************************************************************************)
\* the names of the command classes (commandClass.name, command.constructor.name)
CommandNames == {"CreateBookCommand", "UpdateBookCommand", "DeleteBookCommand"}

\* the handler objects a caller registers
HandlerObjects == {"handlerA", "handlerB"}

NoHandler == "none"
NoResult == [handler |-> NoHandler]

\* new Error(`Handler for command '...' is already registered`)
AlreadyRegisteredError == PlainError("Handler for command is already registered")
\* new Error(`No handler registered for command '...'`)
NoHandlerError == PlainError("No handler registered for command")

\* faulty variant: handlers.set without the has check
registerOverwrites(handlers, commandName, handler) ==
  [handlers |-> [handlers EXCEPT ![commandName] = handler], err |-> NoErr,
   result |-> NoResult]

\* InMemoryCommandBus.register
register(handlers, commandName, handler) ==
  IF handlers[commandName] # NoHandler
  THEN [handlers |-> handlers, err |-> AlreadyRegisteredError, result |-> NoResult]
  ELSE [handlers |-> [handlers EXCEPT ![commandName] = handler], err |-> NoErr,
        result |-> NoResult]

\* InMemoryCommandBus.execute; result: the handler whose execute was called
\* with the command
execute(handlers, commandName) ==
  IF handlers[commandName] = NoHandler
  THEN [handlers |-> handlers, err |-> NoHandlerError, result |-> NoResult]
  ELSE [handlers |-> handlers, err |-> NoErr,
        result |-> [handler |-> handlers[commandName], command |-> commandName]]

\* InMemoryCommandBus.clear
clear(handlers) ==
  [handlers |-> [c \in DOMAIN handlers |-> NoHandler], err |-> NoErr, result |-> NoResult]

(***************************************************************************)
(* State.                                                                  *)
(***************************************************************************)
VARIABLES
  books,      \* write store: book id -> BookRow or NoRow
  quotes,     \* write store: the quotes table (a set of rows)
  notes,      \* write store: the notes table
  clock,      \* the wall clock read by new Date()
  ids,        \* uuids handed out so far, per kind
  agg,        \* SpecAgg/SpecRepo: the aggregate the client holds (NoBook: none)
  op,         \* SpecAgg/SpecRepo: the last call: name, aggregate before, error
  h,          \* Spec: the command handler executions
  started,    \* Spec: commands dispatched so far
  channel,    \* Spec: the module-level broker channel is set
  queue,      \* Spec: messages in the projection queue, oldest first
  consumer,   \* Spec: the consume callback: waiting, handled, failed
  readStore,  \* read store: book id -> BookDocument or NoDoc
  hist,       \* Spec: what the callers and the broker observed
  proj,       \* SpecProj: the event under test and the store after its first application
  bus,        \* SpecBus: the command bus: its handlers map and the calls made on it
  mq          \* SpecConn: rabbitmq.ts: the module's connection and channel, the broker's
              \* open connections and the connectRabbitMQ calls in flight

dbVars == <<books, quotes, notes>>
envVars == <<clock, ids>>
cliVars == <<agg, op>>
pipeVars == <<h, started, channel, queue, consumer, hist>>
projVars == <<readStore, proj>>
vars == <<books, quotes, notes, clock, ids, agg, op, h, started, channel, queue,
          consumer, readStore, hist, proj, bus, mq>>

(***************************************************************************)
(* Bounds of the model.                                                    *)
(***************************************************************************)
MaxBooks == 2     \* book ids handed out by BookId.generate
MaxClock == 3     \* SpecAgg/SpecRepo: business-method calls that read the clock
MaxQuotes == 2    \* quote ids handed out by QuoteId.generate
MaxNotes == 1     \* note ids handed out by NoteId.generate
MaxVersion == 3   \* an aggregate at this version is not saved again
MaxDeliveries == 3 \* SpecProj: first deliveries of messages
MaxCmds == 3      \* Spec: commands dispatched
MaxCrashes == 1   \* Spec: process restarts

BookIds == 1..MaxBooks
Handlers == {"h1", "h2"}
NoCmd == [kind |-> "none", id |-> 0, arg |-> <<>>]
IdleHandler ==
  [pc |-> "idle", cmd |-> NoCmd, row |-> NoRow, qrows |-> <<>>, book |-> NoBook,
   exists |-> FALSE, attempts |-> 0, rowCount |-> NullN, written |-> FALSE,
   err |-> NoErr]
NoOp == [name |-> "none", pre |-> NoBook, err |-> NoErr, input |-> <<>>]
NoProj == [n |-> 0, count |-> 0, seen |-> {}, live |-> {}]

DbInit ==
  /\ books = [i \in BookIds |-> NoRow]
  /\ quotes = {}
  /\ notes = {}
EnvInit ==
  /\ clock = 0
  /\ ids = [book |-> 0, quote |-> 0, note |-> 0, event |-> 0]
CliInit ==
  /\ agg = NoBook
  /\ op = NoOp
PipeInit ==
  /\ h = [x \in Handlers |-> IdleHandler]
  /\ started = 0
  /\ channel = TRUE
  /\ queue = <<>>
  /\ consumer = "waiting"
  /\ hist = [committed |-> {}, published |-> {}, applied |-> {}, acked |-> {},
             nacked |-> {}, crashes |-> 0]
ProjInit ==
  /\ readStore = [i \in BookIds |-> NoDoc]
  /\ proj = NoProj
BusInit ==
  /\ bus = [handlers |-> [c \in CommandNames |-> NoHandler], log |-> <<>>]

\* rabbitmq.ts: let connection = null; let channel = null.  A connection is
\* named by the number of the amqp.connect that opened it, its channel by
\* the same number; NullRef is null.
NullRef == 0
Callers == {"c1", "c2"}
IdleCall == [pc |-> "idle", conn |-> NullRef, result |-> NullRef]
MqInit ==
  /\ mq = [connection |-> NullRef, channel |-> NullRef, open |-> {}, listeners |-> {},
           opened |-> 0, calls |-> [c \in Callers |-> IdleCall]]

(***************************************************************************)
(* SpecAgg: one client calls the business methods of a Book.  Inputs are   *)
(* drawn from the sets below; each holds valid and invalid values.         *)
(***************************************************************************)
CreateInputs ==
  { [title |-> "t1", authorId |-> "a1", pageCount |-> 560],
    [title |-> "t1", authorId |-> "a1", pageCount |-> 560, status |-> READING],
    [title |-> " t2 ", authorId |-> "a1", pageCount |-> 300, status |-> FINISHED,
     yearRead |-> 2024, rating |-> 5, isbn |-> "978-1", coverUrl |-> "c1"],
    [title |-> "t1", authorId |-> "a1", pageCount |-> 560, status |-> ABANDONED],
    [title |-> "  ", authorId |-> "a1", pageCount |-> 560],
    [title |-> "t1", authorId |-> "a1", pageCount |-> 0],
    [title |-> "t1", authorId |-> "", pageCount |-> 560],
    [title |-> "t1", authorId |-> "a1", pageCount |-> 560, status |-> FINISHED],
    [title |-> "t1", authorId |-> "a1", pageCount |-> 560, yearRead |-> 1800],
    [title |-> "t1", authorId |-> "a1", pageCount |-> 560, isbn |-> "bad"],
    [title |-> "t1", authorId |-> "a1", pageCount |-> 560, rating |-> 6] }

UpdateInputs ==
  { [title |-> "t1"],
    [title |-> "t2"],
    [title |-> "t2", pageCount |-> 0],
    [pageCount |-> 560, coverUrl |-> "c1"],
    [rating |-> NullN],
    [yearRead |-> NullN],
    [yearRead |-> 2024, rating |-> 4] }

FinishInputs ==
  { [yearRead |-> 2024, rating |-> 5],
    [yearRead |-> 2025],
    [yearRead |-> 1800],
    [yearRead |-> 2024, rating |-> 6] }

QuoteInputs == { [content |-> "q", page |-> 42], [content |-> " ", page |-> NullN] }
NoteInputs == { [content |-> "n", chapter |-> NullS], [content |-> "", chapter |-> NullS] }

\* the clock advances when a call stored a timestamp or changed the aggregate
Tick(before, r) == IF r.book # before THEN clock + 1 ELSE clock

\* uuids are consumed by the objects the call actually constructed
Count(b, f) == IF b = NoBook THEN 0 ELSE Len(b[f])
Fresh(before, r) ==
  LET created == r.book # NoBook /\ r.book.id # before.id
      base == IF created THEN NoBook ELSE before
  IN  [ids EXCEPT
         !.book = IF created THEN @ + 1 ELSE @,
         !.event = IF Count(r.book, "domainEvents") > Count(base, "domainEvents")
                   THEN @ + 1 ELSE @,
         !.quote = IF Count(r.book, "quotes") > Count(base, "quotes") THEN @ + 1 ELSE @,
         !.note = IF Count(r.book, "notes") > Count(base, "notes") THEN @ + 1 ELSE @]

Called(name, input, r) ==
  /\ agg' = IF r.book = NoBook THEN agg ELSE r.book
  /\ op' = [name |-> name, pre |-> agg, err |-> r.err, input |-> input]
  /\ clock' = Tick(agg, r)
  /\ ids' = Fresh(agg, r)

AggCreate ==
  /\ ids.book < MaxBooks /\ clock < MaxClock
  /\ \E props \in CreateInputs :
       Called("create", props, create(props, ids.book + 1, clock, ids.event + 1))
  /\ UNCHANGED <<dbVars, pipeVars, projVars, bus, mq>>

AggUpdateDetails ==
  /\ agg # NoBook /\ clock < MaxClock
  /\ \E ch \in UpdateInputs :
       Called("updateDetails", ch, updateDetails(agg, ch, clock, ids.event + 1))
  /\ UNCHANGED <<dbVars, pipeVars, projVars, bus, mq>>

AggChangeStatus ==
  /\ agg # NoBook /\ clock < MaxClock
  /\ \E st \in ReadingStatus :
       Called("changeStatus", st, changeStatus(agg, st, clock, ids.event + 1))
  /\ UNCHANGED <<dbVars, pipeVars, projVars, bus, mq>>

AggMarkAsFinished ==
  /\ agg # NoBook /\ clock < MaxClock
  /\ \E args \in FinishInputs :
       Called("markAsFinished", args, markAsFinished(agg, args, clock, ids.event + 1))
  /\ UNCHANGED <<dbVars, pipeVars, projVars, bus, mq>>

AggAddQuote ==
  /\ agg # NoBook /\ clock < MaxClock /\ ids.quote < MaxQuotes
  /\ \E q \in QuoteInputs :
       Called("addQuote", q,
                 addQuote(agg, q.content, q.page, ids.quote + 1, clock, ids.event + 1))
  /\ UNCHANGED <<dbVars, pipeVars, projVars, bus, mq>>

AggRemoveQuote ==
  /\ agg # NoBook /\ clock < MaxClock
  /\ \E qid \in 1..MaxQuotes :
       Called("removeQuote", qid, removeQuote(agg, qid, clock))
  /\ UNCHANGED <<dbVars, pipeVars, projVars, bus, mq>>

AggAddNote ==
  /\ agg # NoBook /\ clock < MaxClock /\ ids.note < MaxNotes
  /\ \E n \in NoteInputs :
       Called("addNote", n, addNote(agg, n.content, n.chapter, ids.note + 1, clock))
  /\ UNCHANGED <<dbVars, pipeVars, projVars, bus, mq>>

AggRemoveNote ==
  /\ agg # NoBook /\ clock < MaxClock
  /\ \E nid \in 1..MaxNotes :
       Called("removeNote", nid, removeNote(agg, nid, clock))
  /\ UNCHANGED <<dbVars, pipeVars, projVars, bus, mq>>

AggMarkAsDeleted ==
  /\ agg # NoBook /\ clock < MaxClock
  /\ Called("markAsDeleted", <<>>, markAsDeleted(agg, ids.event + 1))
  /\ UNCHANGED <<dbVars, pipeVars, projVars, bus, mq>>

AggClearDomainEvents ==
  /\ agg # NoBook /\ hasUncommittedEvents(agg)
  /\ agg' = clearDomainEvents(agg)
  /\ op' = [name |-> "clearDomainEvents", pre |-> agg, err |-> NoErr, input |-> <<>>]
  /\ UNCHANGED <<envVars, dbVars, pipeVars, projVars, bus, mq>>

NextAgg ==
  \/ AggCreate
  \/ AggUpdateDetails
  \/ AggChangeStatus
  \/ AggMarkAsFinished
  \/ AggAddQuote
  \/ AggRemoveQuote
  \/ AggAddNote
  \/ AggRemoveNote
  \/ AggMarkAsDeleted
  \/ AggClearDomainEvents

InitAll == DbInit /\ EnvInit /\ CliInit /\ PipeInit /\ ProjInit /\ BusInit /\ MqInit

SpecAgg == InitAll /\ [][NextAgg]_vars

(***************************************************************************)
(* SpecRepo: the same client also saves the aggregate it holds, loads      *)
(* aggregates by id and deletes books.  No other client writes.            *)
(***************************************************************************)
RepoCreateInputs ==
  { [title |-> "t1", authorId |-> "a1", pageCount |-> 560],
    [title |-> " t2 ", authorId |-> "a1", pageCount |-> 300, status |-> FINISHED,
     yearRead |-> 2024, rating |-> 5, isbn |-> "978-1", coverUrl |-> "c1"],
    [title |-> "t1", authorId |-> "a1", pageCount |-> 560, isbn |-> "9781"] }
RepoUpdateInputs == { [title |-> "t2"], [yearRead |-> 2024, rating |-> 4] }
RepoFinishInputs == { [yearRead |-> 2025] }
RepoQuoteInputs == { [content |-> "q", page |-> 42] }
RepoNoteInputs == { [content |-> "n", chapter |-> NullS] }
NoteContentInputs == { "n2" }

RepoCreate ==
  /\ ids.book < MaxBooks /\ clock < MaxClock
  /\ \E props \in RepoCreateInputs :
       Called("create", props, create(props, ids.book + 1, clock, ids.event + 1))
  /\ UNCHANGED <<dbVars, pipeVars, projVars, bus, mq>>

RepoUpdateDetails ==
  /\ agg # NoBook /\ clock < MaxClock
  /\ \E ch \in RepoUpdateInputs :
       Called("updateDetails", ch, updateDetails(agg, ch, clock, ids.event + 1))
  /\ UNCHANGED <<dbVars, pipeVars, projVars, bus, mq>>

RepoMarkAsFinished ==
  /\ agg # NoBook /\ clock < MaxClock
  /\ \E args \in RepoFinishInputs :
       Called("markAsFinished", args, markAsFinished(agg, args, clock, ids.event + 1))
  /\ UNCHANGED <<dbVars, pipeVars, projVars, bus, mq>>

RepoAddQuote ==
  /\ agg # NoBook /\ clock < MaxClock /\ ids.quote < MaxQuotes
  /\ \E q \in RepoQuoteInputs :
       Called("addQuote", q,
                 addQuote(agg, q.content, q.page, ids.quote + 1, clock, ids.event + 1))
  /\ UNCHANGED <<dbVars, pipeVars, projVars, bus, mq>>

RepoRemoveQuote ==
  /\ agg # NoBook /\ clock < MaxClock
  /\ \E i \in 1..Len(agg.quotes) :
       Called("removeQuote", agg.quotes[i].id, removeQuote(agg, agg.quotes[i].id, clock))
  /\ UNCHANGED <<dbVars, pipeVars, projVars, bus, mq>>

RepoAddNote ==
  /\ agg # NoBook /\ clock < MaxClock /\ ids.note < MaxNotes
  /\ \E n \in RepoNoteInputs :
       Called("addNote", n, addNote(agg, n.content, n.chapter, ids.note + 1, clock))
  /\ UNCHANGED <<dbVars, pipeVars, projVars, bus, mq>>

RepoRemoveNote ==
  /\ agg # NoBook /\ clock < MaxClock
  /\ \E i \in 1..Len(agg.notes) :
       Called("removeNote", agg.notes[i].id, removeNote(agg, agg.notes[i].id, clock))
  /\ UNCHANGED <<dbVars, pipeVars, projVars, bus, mq>>

\* book.notes[i].updateContent(content)
RepoNoteUpdateContent ==
  /\ agg # NoBook /\ clock < MaxClock
  /\ \E i \in 1..Len(agg.notes) : \E content \in NoteContentInputs :
       Called("Note.updateContent", content, NoteUpdateContent(agg, i, content, clock))
  /\ UNCHANGED <<dbVars, pipeVars, projVars, bus, mq>>

\* repository.save(book): the aggregate object is left as it was
RepoSave ==
  /\ agg # NoBook /\ agg.version < MaxVersion
  /\ LET r == save(books, quotes, notes, agg)
     IN  /\ books' = r.books
         /\ quotes' = r.quotes
         /\ notes' = r.notes
         /\ op' = [name |-> "save", pre |-> agg, err |-> r.err, input |-> agg.id]
  /\ UNCHANGED <<agg, envVars, pipeVars, projVars, bus, mq>>

\* book = repository.findById(id).  When the call follows a successful save
\* of the aggregate with this id, op.pre keeps the aggregate that was saved
\* (input.afterSave); otherwise op.pre is NoBook.
RepoFindById ==
  /\ \E id \in BookIds :
       LET afterSave == op.name = "save" /\ op.err = NoErr /\ op.input = id
       IN  /\ agg' = findById(books, quotes, notes, id)
           /\ op' = [name |-> "findById", pre |-> IF afterSave THEN agg ELSE NoBook,
                     err |-> NoErr, input |-> [id |-> id, afterSave |-> afterSave]]
  /\ UNCHANGED <<dbVars, envVars, pipeVars, projVars, bus, mq>>

\* repository.delete(id)
RepoDelete ==
  /\ \E id \in BookIds :
       LET r == deleteCascade(books, quotes, notes, id)
       IN  /\ books' = r.books
           /\ quotes' = r.quotes
           /\ notes' = r.notes
           /\ op' = [name |-> "delete", pre |-> agg, err |-> NoErr, input |-> id]
  /\ UNCHANGED <<agg, envVars, pipeVars, projVars, bus, mq>>

NextRepo ==
  \/ RepoCreate
  \/ RepoUpdateDetails
  \/ RepoMarkAsFinished
  \/ RepoAddQuote
  \/ RepoRemoveQuote
  \/ RepoAddNote
  \/ RepoRemoveNote
  \/ RepoNoteUpdateContent
  \/ RepoSave
  \/ RepoFindById
  \/ RepoDelete

SpecRepo == InitAll /\ [][NextRepo]_vars

(***************************************************************************)
(* SpecProj: the consumer takes messages off the projection queue and      *)
(* hands them to the router; the broker may deliver a message a second     *)
(* time.  The messages are those the aggregate's methods emit for each     *)
(* book id, and one of a kind the router does not know.                    *)
(***************************************************************************)
ProjBook(id) == create([title |-> "t1", authorId |-> "a1", pageCount |-> 560], id, 0, 1).book

EventsFor(id) ==
  LET b == clearDomainEvents(ProjBook(id))
  IN  { ProjBook(id).domainEvents[1],
        updateDetails(b, [title |-> "t2"], 1, 2).book.domainEvents[1],
        changeStatus(b, READING, 1, 3).book.domainEvents[1],
        markAsFinished(b, [yearRead |-> 2025, rating |-> 5], 1, 4).book.domainEvents[1],
        addQuote(b, "q", 42, 1, 1, 5).book.domainEvents[1],
        markAsDeleted(b, 6).book.domainEvents[1],
        DomainEvent(7, "library.author.created", [authorId |-> "a1"]),
        updateDetails(
          clearDomainEvents(markAsFinished(b, [yearRead |-> 2025, rating |-> 5], 1, 4).book),
          [yearRead |-> NullN, rating |-> NullN], 2, 9).book.domainEvents[1] }

ProjMessages == UNION { {ToJSON(ev) : ev \in EventsFor(id)} : id \in BookIds }

\* the book ids whose last applied lifecycle event (created or deleted) is a
\* created one, after msg was handled
LiveAfter(live, msg, threw) ==
  IF threw THEN live
  ELSE IF msg.eventName = "library.book.created" THEN live \cup {msg.payload.bookId}
  ELSE IF msg.eventName = "library.book.deleted" THEN live \ {msg.payload.bookId}
  ELSE live

\* the consumer callback of subscribeToEvents on the delivery of a message, new
\* or delivered before (proj.seen: the messages a handler has applied; again:
\* this one was among them); new Date() in the handler reads the clock, which
\* may have advanced
ProjDeliver ==
  /\ proj.count < MaxDeliveries
  /\ \E msg \in ProjMessages : \E dt \in {0, 1} :
       LET r == router(readStore, msg, clock + dt)
       IN  /\ readStore' = r.store
           /\ clock' = clock + dt
           /\ proj' = [n |-> 1, count |-> proj.count + 1, event |-> msg,
                       before |-> readStore, once |-> r.store, threw |-> r.threw,
                       again |-> msg \in proj.seen,
                       live |-> LiveAfter(proj.live, msg, r.threw),
                       seen |-> IF r.threw THEN proj.seen ELSE proj.seen \cup {msg}]
  /\ UNCHANGED <<dbVars, ids, cliVars, pipeVars, bus, mq>>

\* the same message delivered again (it was not acknowledged in time)
ProjRedeliver ==
  /\ proj.n = 1
  /\ \E dt \in {0, 1} :
       LET r == router(readStore, proj.event, clock + dt)
       IN  /\ readStore' = r.store
           /\ clock' = clock + dt
           /\ proj' = [proj EXCEPT !.n = 2, !.threw = r.threw,
                                   !.live = LiveAfter(@, proj.event, r.threw)]
  /\ UNCHANGED <<dbVars, ids, cliVars, pipeVars, bus, mq>>

NextProj ==
  \/ ProjDeliver
  \/ ProjRedeliver

SpecProj == InitAll /\ [][NextProj]_vars

(***************************************************************************)
(* Spec: the pipeline.  Commands are dispatched to the handler slots; a    *)
(* handler execution advances one awaited call at a time, so the           *)
(* executions interleave at the statements they send to the write store.   *)
(* A transaction that has written a book row holds the row lock until it   *)
(* commits or rolls back (READ COMMITTED): a writer of the same row waits, *)
(* then evaluates its WHERE clause on the committed row.                   *)
(***************************************************************************)
PipeCreateInputs ==
  { [title |-> "t1", authorId |-> "a1", pageCount |-> 560],
    [title |-> "t1", authorId |-> "a1", pageCount |-> 560, isbn |-> "978-1"] }
PipeUpdateInputs == { [title |-> "t1"], [title |-> "t2"] }
PipeFinishInputs == { [yearRead |-> 2025] }
PipeQuoteInputs == { [content |-> "q", page |-> 42] }

\* the commands a caller can send once `n` book ids were handed out
Commands(n) ==
  { [kind |-> "create", id |-> 0, arg |-> p] : p \in PipeCreateInputs }
  \cup { [kind |-> "update", id |-> i, arg |-> c] : i \in 1..n, c \in PipeUpdateInputs }
  \cup { [kind |-> "finish", id |-> i, arg |-> a] : i \in 1..n, a \in PipeFinishInputs }
  \cup { [kind |-> "addQuote", id |-> i, arg |-> q] : i \in 1..n, q \in PipeQuoteInputs }
  \cup { [kind |-> "delete", id |-> i, arg |-> <<>>] : i \in 1..n }

\* the error of a rejected unique index (the pg driver's error)
UniqueViolation == PlainError("unique_violation")
\* CreateBookHandler: throw new Error(`Book with ISBN ... already exists`)
IsbnExistsError == PlainError("Book with ISBN already exists")
\* getChannel: throw new Error('RabbitMQ not connected. ...')
NotConnectedError == PlainError("RabbitMQ not connected")
\* PostgresBookRepository.update: throw new Error(`Optimistic concurrency conflict ...`)
ConflictError == PlainError("Optimistic concurrency conflict")
\* the process exited before the caller got an answer
NoResponse == [name |-> "no response", code |-> "none"]

Running(e) == e.pc \notin {"idle", "done"}

\* faulty variant: the outbox is cleared on the way out
RejectedOutboxCleared(e, err) ==
  [e EXCEPT !.pc = "done", !.err = err,
            !.book = IF @ = NoBook THEN @ ELSE clearDomainEvents(@)]

\* the execution e ends with the exception err
Rejected(e, err) == [e EXCEPT !.pc = "done", !.err = err]

\* the business method the handler of e.cmd calls on the loaded aggregate
BusinessMethod(cmd, book, now, qid, eid) ==
  CASE cmd.kind = "update"   -> updateDetails(book, cmd.arg, now, eid)
    [] cmd.kind = "finish"   -> markAsFinished(book, cmd.arg, now, eid)
    [] cmd.kind = "addQuote" -> addQuote(book, cmd.arg.content, cmd.arg.page, qid, now, eid)
    [] cmd.kind = "delete"   -> markAsDeleted(book, eid)

\* the clock and the ids after a business method made `after` out of `before`
Consumed(before, after) ==
  /\ clock' = clock + 1
  /\ ids' = [ids EXCEPT
       !.book = IF after.id # before.id THEN @ + 1 ELSE @,
       !.event = IF Len(after.domainEvents) > Count(before, "domainEvents")
                 THEN @ + 1 ELSE @,
       !.quote = IF Len(after.quotes) > Count(before, "quotes") THEN @ + 1 ELSE @]

\* CreateBookHandler.execute from Book.create to the call of save
CreateStep(x) ==
  LET r == create(h[x].cmd.arg, ids.book + 1, clock, ids.event + 1)
  IN  IF r.err # NoErr
      THEN /\ h' = [h EXCEPT ![x] = Rejected(@, r.err)]
           /\ UNCHANGED envVars
      ELSE /\ h' = [h EXCEPT ![x] = [@ EXCEPT !.pc = "tx_exists", !.book = r.book]]
           /\ Consumed(NoBook, r.book)

\* executions of CreateBookHandler that have not yet generated their book id
Creating == Cardinality({y \in Handlers : h[y].pc = "find_isbn"})

\* a caller sends a command; the handler runs to its first awaited call
Dispatch(x) ==
  /\ ~Running(h[x]) /\ started < MaxCmds
  /\ \E cmd \in Commands(ids.book) :
       /\ cmd.kind = "create" => ids.book + Creating < MaxBooks
       /\ h' = [h EXCEPT ![x] =
                  [IdleHandler EXCEPT
                     !.cmd = cmd,
                     !.pc = IF cmd.kind = "create" THEN "find_isbn" ELSE "find_book"]]
  /\ started' = started + 1
  /\ UNCHANGED <<dbVars, envVars, cliVars, channel, queue, consumer, hist, projVars, bus, mq>>

\* CreateBookHandler: if (isbn) findByIsbn(isbn), with the isbn as the caller wrote it
FindByIsbn(x) ==
  /\ h[x].pc = "find_isbn"
  /\ IF /\ Has(h[x].cmd.arg, "isbn")
        /\ \E i \in BookIds : books[i] # NoRow /\ books[i].isbn = h[x].cmd.arg.isbn
     THEN /\ h' = [h EXCEPT ![x] = Rejected(@, IsbnExistsError)]
          /\ UNCHANGED envVars
     ELSE CreateStep(x)
  /\ UNCHANGED <<dbVars, cliVars, started, channel, queue, consumer, hist, projVars, bus, mq>>

\* faulty variant: a missing row is looked up a second time before the
\* handler gives up
FindBookRetries(x) ==
  /\ h[x].pc = "find_book"
  /\ h' = [h EXCEPT ![x] =
             IF books[h[x].cmd.id] = NoRow
             THEN IF h[x].attempts = 0 THEN [@ EXCEPT !.attempts = 1]
                  ELSE Rejected(@, EntityNotFoundException)
             ELSE [@ EXCEPT !.pc = "find_quotes", !.row = books[h[x].cmd.id]]]
  /\ UNCHANGED <<dbVars, envVars, cliVars, started, channel, queue, consumer, hist, projVars, bus, mq>>

\* findById: SELECT * FROM books WHERE id = $1
FindBook(x) ==
  /\ h[x].pc = "find_book"
  /\ h' = [h EXCEPT ![x] =
             IF books[h[x].cmd.id] = NoRow
             THEN Rejected(@, EntityNotFoundException)
             ELSE [@ EXCEPT !.pc = "find_quotes", !.row = books[h[x].cmd.id]]]
  /\ UNCHANGED <<dbVars, envVars, cliVars, started, channel, queue, consumer, hist, projVars, bus, mq>>

\* findById: SELECT * FROM quotes WHERE book_id = $1 ORDER BY created_at
FindQuotes(x) ==
  /\ h[x].pc = "find_quotes"
  /\ h' = [h EXCEPT ![x] = [@ EXCEPT !.pc = "find_notes",
                                     !.qrows = QuotesOf(quotes, h[x].cmd.id)]]
  /\ UNCHANGED <<dbVars, envVars, cliVars, started, channel, queue, consumer, hist, projVars, bus, mq>>

\* findById: SELECT * FROM notes ..., toAggregate, then the handler's business
\* method, up to the call of save or delete
FindNotes(x) ==
  /\ h[x].pc = "find_notes"
  /\ LET loaded == toAggregate(h[x].row, h[x].qrows, NotesOf(notes, h[x].cmd.id))
         r == BusinessMethod(h[x].cmd, loaded, clock, ids.quote + 1, ids.event + 1)
     IN  IF r.err # NoErr
         THEN /\ h' = [h EXCEPT ![x] = Rejected(@, r.err)]
              /\ UNCHANGED envVars
         ELSE /\ h' = [h EXCEPT ![x] =
                         [@ EXCEPT !.book = r.book,
                                   !.pc = IF h[x].cmd.kind = "delete"
                                          THEN "tx_write" ELSE "tx_exists"]]
              /\ Consumed(loaded, r.book)
  /\ UNCHANGED <<dbVars, cliVars, started, channel, queue, consumer, hist, projVars, bus, mq>>

\* save: BEGIN; SELECT EXISTS(SELECT 1 FROM books WHERE id = $1)
TxExists(x) ==
  /\ h[x].pc = "tx_exists"
  /\ h' = [h EXCEPT ![x] = [@ EXCEPT !.pc = "tx_write",
                                     !.exists = existsInTransaction(books, h[x].book.id)]]
  /\ UNCHANGED <<dbVars, envVars, cliVars, started, channel, queue, consumer, hist, projVars, bus, mq>>

\* another open transaction has written the row of book `id`, or inserted a
\* row with the same isbn: the statement of x waits for it to end
MustWait(x, id, isbn) ==
  \E y \in Handlers \ {x} :
    /\ h[y].pc = "tx_commit"
    /\ \/ h[y].book.id = id
       \/ isbn # NullS /\ h[y].cmd.kind # "delete" /\ ~h[y].exists /\ h[y].book.isbn = isbn

\* faulty variant: the handler goes on to publish although the write threw
AfterWriteErrorIgnored(e, err) ==
  IF err = NoErr THEN [e EXCEPT !.pc = "tx_commit"] ELSE [e EXCEPT !.pc = "publish"]

\* the handler's step after save/delete returned or threw
AfterWrite(e, err) ==
  IF err = NoErr THEN [e EXCEPT !.pc = "tx_commit"] ELSE Rejected(e, err)

\* the outcome of the statement that writes the book row: UPDATE ... WHERE id
\* AND version (update), INSERT (insert), DELETE (DeleteBookHandler)
WriteOutcome(e) ==
  IF e.cmd.kind = "delete" THEN NoErr
  ELSE IF e.exists
    THEN IF update(books, e.book).rowCount = 0 THEN ConflictError ELSE NoErr
  ELSE IF existsInTransaction(books, e.book.id) \/ IsbnTaken(books, e.book)
    THEN UniqueViolation
  ELSE NoErr

\* the statement that writes the book row; a statement that throws ends the
\* transaction with ROLLBACK and the handler with the error
TxWrite(x) ==
  /\ h[x].pc = "tx_write"
  /\ ~MustWait(x, h[x].book.id, IF h[x].exists THEN NullS ELSE h[x].book.isbn)
  /\ LET e == [h[x] EXCEPT
                 !.attempts = @ + 1,
                 !.rowCount = IF h[x].cmd.kind # "delete" /\ h[x].exists
                              THEN update(books, h[x].book).rowCount ELSE @]
     IN  h' = [h EXCEPT ![x] = AfterWrite(e, WriteOutcome(e))]
  /\ UNCHANGED <<dbVars, envVars, cliVars, started, channel, queue, consumer, hist, projVars, bus, mq>>

EventIds(b) == {b.domainEvents[i].eventId : i \in 1..Len(b.domainEvents)}

\* faulty variant: the children are written outside the transaction and are
\* lost when the book row commits
TxCommitWithoutChildren(x) ==
  /\ h[x].pc = "tx_commit"
  /\ LET b == h[x].book
     IN  IF h[x].cmd.kind = "delete"
         THEN LET r == deleteCascade(books, quotes, notes, h[x].cmd.id)
              IN  books' = r.books /\ quotes' = r.quotes /\ notes' = r.notes
         ELSE /\ books' = IF h[x].exists THEN update(books, b).books ELSE insert(books, b)
              /\ UNCHANGED <<quotes, notes>>
  /\ h' = [h EXCEPT ![x] = [@ EXCEPT !.pc = "publish", !.written = TRUE]]
  /\ hist' = [hist EXCEPT !.committed = @ \cup EventIds(h[x].book)]
  /\ UNCHANGED <<envVars, cliVars, started, channel, queue, consumer, projVars, bus, mq>>

\* faulty variant: the handler also writes the read document of its book
TxCommitWritesReadModel(x) ==
  /\ h[x].pc = "tx_commit"
  /\ LET b == h[x].book
     IN  IF h[x].cmd.kind = "delete"
         THEN LET r == deleteCascade(books, quotes, notes, h[x].cmd.id)
              IN  books' = r.books /\ quotes' = r.quotes /\ notes' = r.notes
         ELSE /\ books' = IF h[x].exists THEN update(books, b).books ELSE insert(books, b)
              /\ quotes' = syncQuotes(quotes, b)
              /\ notes' = syncNotes(notes, b)
  /\ readStore' = IF Len(h[x].book.domainEvents) = 0 THEN readStore
                  ELSE router(readStore, h[x].book.domainEvents[1], clock).store
  /\ h' = [h EXCEPT ![x] = [@ EXCEPT !.pc = "publish", !.written = TRUE]]
  /\ hist' = [hist EXCEPT !.committed = @ \cup EventIds(h[x].book)]
  /\ UNCHANGED <<envVars, cliVars, started, channel, queue, consumer, proj, bus, mq>>

\* syncQuotes, syncNotes and COMMIT: the transaction's writes become visible
TxCommit(x) ==
  /\ h[x].pc = "tx_commit"
  /\ LET b == h[x].book
     IN  IF h[x].cmd.kind = "delete"
         THEN LET r == deleteCascade(books, quotes, notes, h[x].cmd.id)
              IN  books' = r.books /\ quotes' = r.quotes /\ notes' = r.notes
         ELSE /\ books' = IF h[x].exists THEN update(books, b).books ELSE insert(books, b)
              /\ quotes' = syncQuotes(quotes, b)
              /\ notes' = syncNotes(notes, b)
  /\ h' = [h EXCEPT ![x] = [@ EXCEPT !.pc = "publish", !.written = TRUE]]
  /\ hist' = [hist EXCEPT !.committed = @ \cup EventIds(h[x].book)]
  /\ UNCHANGED <<envVars, cliVars, started, channel, queue, consumer, projVars, bus, mq>>

\* RabbitMQEventPublisher.publish: [err, queue]; getChannel throws when no
\* channel is set, otherwise the serialized event is routed to the queue
publish(q, event, ch) ==
  IF ~ch THEN [err |-> NotConnectedError, queue |-> q]
  ELSE [err |-> NoErr, queue |-> Append(q, ToJSON(event))]

\* RabbitMQEventPublisher.publishAll: for (const event of events) await
\* this.publish(event), run without interruption
RECURSIVE publishAll(_, _, _)
publishAll(q, events, ch) ==
  IF Len(events) = 0 THEN [err |-> NoErr, queue |-> q]
  ELSE LET r == publish(q, Head(events), ch)
       IN  IF r.err # NoErr THEN r ELSE publishAll(r.queue, Tail(events), ch)

\* the handlers that call clearDomainEvents after publishAll
Clears(cmd) == cmd.kind # "delete"

\* the handler after its write: publishAll([...book.domainEvents]) and
\* clearDomainEvents; UpdateBookHandler skips both when the outbox is empty
Publish(x) ==
  /\ h[x].pc = "publish"
  /\ LET b == h[x].book
         r == publishAll(queue, b.domainEvents, channel)
     IN  /\ queue' = r.queue
         /\ h' = [h EXCEPT ![x] =
                    IF r.err # NoErr THEN Rejected(@, r.err)
                    ELSE [@ EXCEPT !.pc = "done",
                                   !.book = IF Clears(h[x].cmd)
                                            THEN clearDomainEvents(b) ELSE b]]
         /\ hist' = IF r.err # NoErr THEN hist
                    ELSE [hist EXCEPT !.published = @ \cup EventIds(b)]
  /\ UNCHANGED <<dbVars, envVars, cliVars, started, channel, consumer, projVars, bus, mq>>

\* connection.on('close'): the module's connection and channel are set to
\* null; the broker requeues the message the consumer had not acknowledged
ConnectionClosed ==
  /\ channel
  /\ channel' = FALSE
  /\ consumer' = "waiting"
  /\ UNCHANGED <<dbVars, envVars, cliVars, h, started, queue, hist, projVars, bus, mq>>

\* the process exits and is started again: executions in flight are lost,
\* their open transactions roll back, start() connects and subscribes anew
CrashRestart ==
  /\ hist.crashes < MaxCrashes
  /\ h' = [x \in Handlers |->
             IF Running(h[x]) THEN Rejected(h[x], NoResponse) ELSE h[x]]
  /\ channel' = TRUE
  /\ consumer' = "waiting"
  /\ hist' = [hist EXCEPT !.crashes = @ + 1]
  /\ UNCHANGED <<dbVars, envVars, cliVars, started, queue, projVars, bus, mq>>

\* JSON.parse(msg.content.toString()) returns an event
Parses(msg) == Has(msg, "eventName")

\* the consume callback up to the end of `await handler(event)`; JSON.parse
\* or the handler may throw
ConsumerHandle ==
  /\ channel /\ consumer = "waiting" /\ Len(queue) > 0
  /\ LET r == IF Parses(Head(queue)) THEN router(readStore, Head(queue), clock)
              ELSE Threw(readStore)
     IN  /\ readStore' = r.store
         /\ consumer' = IF r.threw THEN "failed" ELSE "handled"
         /\ hist' = IF r.threw THEN hist
                    ELSE [hist EXCEPT !.applied = @ \cup {Head(queue).eventId}]
  /\ UNCHANGED <<dbVars, envVars, cliVars, h, started, channel, queue, proj, bus, mq>>

\* ch.ack(msg)
ConsumerAck ==
  /\ channel /\ consumer = "handled"
  /\ queue' = Tail(queue)
  /\ consumer' = "waiting"
  /\ hist' = [hist EXCEPT !.acked = @ \cup {Head(queue).eventId}]
  /\ UNCHANGED <<dbVars, envVars, cliVars, h, started, channel, projVars, bus, mq>>

\* faulty variant: ch.nack(msg, false, true), the message goes back to the queue
ConsumerNackRequeue ==
  /\ channel /\ consumer = "failed"
  /\ queue' = Append(Tail(queue), Head(queue))
  /\ consumer' = "waiting"
  /\ hist' = [hist EXCEPT !.nacked = @ \cup {Head(queue).eventId}]
  /\ UNCHANGED <<dbVars, envVars, cliVars, h, started, channel, projVars, bus, mq>>

\* ch.nack(msg, false, false): rejected without requeue; the queue has no
\* dead-letter exchange, the broker drops the message
ConsumerNack ==
  /\ channel /\ consumer = "failed"
  /\ queue' = Tail(queue)
  /\ consumer' = "waiting"
  /\ hist' = [hist EXCEPT !.nacked = @ \cup {Head(queue).eventId}]
  /\ UNCHANGED <<dbVars, envVars, cliVars, h, started, channel, projVars, bus, mq>>

Next ==
  \/ \E x \in Handlers : Dispatch(x)
  \/ \E x \in Handlers : FindByIsbn(x)
  \/ \E x \in Handlers : FindBook(x)
  \/ \E x \in Handlers : FindQuotes(x)
  \/ \E x \in Handlers : FindNotes(x)
  \/ \E x \in Handlers : TxExists(x)
  \/ \E x \in Handlers : TxWrite(x)
  \/ \E x \in Handlers : TxCommit(x)
  \/ \E x \in Handlers : Publish(x)
  \/ ConnectionClosed
  \/ CrashRestart
  \/ ConsumerHandle
  \/ ConsumerAck
  \/ ConsumerNack

Spec == InitAll /\ [][Next]_vars

(***************************************************************************)
(* SpecConsumer: the projection consumer on its queue.  The queue          *)
(* book-service.projections is bound to the topic exchange library.events  *)
(* with library.book.*; the broker routes to it every message published    *)
(* with such a routing key, by this service or by another publisher.       *)
(***************************************************************************)
\* a message whose routing key matches the binding and whose event name the
\* router has no case for
UnknownNameMessage ==
  [eventId |-> 7, eventName |-> "library.book.archived", payload |-> [bookId |-> 1]]

\* a message whose content is not JSON
MalformedMessage == [eventId |-> 8, raw |-> "{"]

ConsumerMessages ==
  {ToJSON(ev) : ev \in {e \in EventsFor(1) : e.eventName # "library.author.created"}}
  \cup {UnknownNameMessage, MalformedMessage}

\* the broker routes a published message to the queue
BrokerDeliver ==
  /\ Cardinality(hist.published) < MaxDeliveries
  /\ \E msg \in ConsumerMessages :
       /\ msg.eventId \notin hist.published
       /\ queue' = Append(queue, msg)
       /\ hist' = [hist EXCEPT !.published = @ \cup {msg.eventId}]
  /\ UNCHANGED <<dbVars, envVars, cliVars, h, started, channel, consumer, projVars, bus, mq>>

NextConsumer ==
  \/ BrokerDeliver
  \/ ConsumerHandle
  \/ ConsumerAck
  \/ ConsumerNack
  \/ ConnectionClosed
  \/ CrashRestart

SpecConsumer == InitAll /\ [][NextConsumer]_vars

(***************************************************************************)
(* SpecPublish: a caller applies business methods to a Book and hands its  *)
(* outbox to RabbitMQEventPublisher.publishAll.  The loop of publishAll is *)
(* taken one publish at a time; the connection may close in between.       *)
(* op.input = [done, q0]: the events published so far by the running call  *)
(* and the queue when it was called.                                       *)
(***************************************************************************)
\* a call of publishAll that has neither returned nor thrown
Publishing == op.name = "publishAll" /\ op.err = NoErr

\* publishAll([...book.domainEvents]) is called
PublishAllCall ==
  /\ agg # NoBook /\ hasUncommittedEvents(agg) /\ ~Publishing
  /\ op' = [name |-> "publishAll", pre |-> agg, err |-> NoErr,
            input |-> [done |-> 0, q0 |-> queue]]
  /\ UNCHANGED <<agg, dbVars, envVars, pipeVars, projVars, bus, mq>>

\* faulty variant: the loop catches the error of a publish and goes on
PublishNextSkipsFailure ==
  /\ Publishing /\ op.input.done < Len(op.pre.domainEvents)
  /\ LET r == publish(queue, op.pre.domainEvents[op.input.done + 1], channel)
     IN  /\ queue' = r.queue
         /\ op' = [op EXCEPT !.input.done = @ + 1]
  /\ UNCHANGED <<agg, dbVars, envVars, h, started, channel, consumer, hist, projVars, bus, mq>>

\* one iteration of the loop: await this.publish(event)
PublishNext ==
  /\ Publishing /\ op.input.done < Len(op.pre.domainEvents)
  /\ LET r == publish(queue, op.pre.domainEvents[op.input.done + 1], channel)
     IN  /\ queue' = r.queue
         /\ op' = IF r.err # NoErr THEN [op EXCEPT !.err = r.err]
                  ELSE [op EXCEPT !.input.done = @ + 1]
  /\ UNCHANGED <<agg, dbVars, envVars, h, started, channel, consumer, hist, projVars, bus, mq>>

\* publishAll returns and the caller clears the outbox
PublishAllReturn ==
  /\ Publishing /\ op.input.done = Len(op.pre.domainEvents)
  /\ op' = [op EXCEPT !.name = "publishAllReturned"]
  /\ agg' = clearDomainEvents(agg)
  /\ UNCHANGED <<dbVars, envVars, pipeVars, projVars, bus, mq>>

NextPublish ==
  \/ ~Publishing /\ AggCreate
  \/ ~Publishing /\ AggUpdateDetails
  \/ ~Publishing /\ AggChangeStatus
  \/ ~Publishing /\ AggMarkAsFinished
  \/ ~Publishing /\ AggAddQuote
  \/ PublishAllCall
  \/ PublishNext
  \/ PublishAllReturn
  \/ ConnectionClosed

SpecPublish == InitAll /\ [][NextPublish]_vars


(***************************************************************************)
(* SpecQuery: the pipeline with one command in flight at a time on a       *)
(* connection that stays open, and a client of the read repository.  op is *)
(* the query answered last: op.input = [arg, result].  No message is       *)
(* delivered twice here, so no projection handler throws.                  *)
(***************************************************************************)
QueryYears == {2024, 2025}

\* the record of an answered query
Answer(name, arg, result) ==
  [name |-> name, pre |-> NoBook, err |-> NoErr, input |-> [arg |-> arg, result |-> result]]

\* readRepository.findById(bookId)
QueryFindById ==
  /\ \E id \in BookIds : op' = Answer("findById", id, readFindById(readStore, id))
  /\ UNCHANGED <<agg, dbVars, envVars, pipeVars, projVars, bus, mq>>

\* readRepository.countByYear(year)
QueryCountByYear ==
  /\ \E year \in QueryYears : op' = Answer("countByYear", year, countByYear(readStore, year))
  /\ UNCHANGED <<agg, dbVars, envVars, pipeVars, projVars, bus, mq>>

\* readRepository.getAvailableYears()
QueryGetAvailableYears ==
  /\ op' = Answer("getAvailableYears", <<>>, getAvailableYears(readStore))
  /\ UNCHANGED <<agg, dbVars, envVars, pipeVars, projVars, bus, mq>>

NextQuery ==
  \/ Dispatch("h1")
  \/ FindByIsbn("h1")
  \/ FindBook("h1")
  \/ FindQuotes("h1")
  \/ FindNotes("h1")
  \/ TxExists("h1")
  \/ TxWrite("h1")
  \/ TxCommit("h1")
  \/ Publish("h1")
  \/ ConsumerHandle
  \/ ConsumerAck
  \/ QueryFindById
  \/ QueryCountByYear
  \/ QueryGetAvailableYears

SpecQuery == InitAll /\ [][NextQuery]_vars

(***************************************************************************)
(* SpecEvent: domain event objects with their metadata.  A client          *)
(* constructs concrete events and re-emits them with withCorrelation.      *)
(* op.input = [event, correlationId, causationId, result, after]: the      *)
(* receiver, the arguments, the returned event, the receiver afterwards.   *)
(***************************************************************************)
\* undefined, in a field that holds an id
Undefined == 0

\* the metadata argument left out
NoMetadata == <<>>

\* metadata?.field, undefined when the metadata or the field is missing
MetadataField(metadata, f) == IF Has(metadata, f) THEN metadata[f] ELSE Undefined

\* DomainEvent.constructor(eventName, payload, metadata?); uuid and now are
\* the values uuidv4() and new Date() would give
DomainEventConstructor(eventName, payload, metadata, uuid, now) ==
  LET eventId == IF MetadataField(metadata, "eventId") # Undefined
                 THEN metadata.eventId ELSE uuid
      occurredAt == IF Has(metadata, "occurredAt") THEN metadata.occurredAt ELSE now
  IN  [eventId |-> eventId, occurredAt |-> occurredAt, eventName |-> eventName,
       payload |-> payload,
       metadata |-> [eventId |-> eventId, occurredAt |-> occurredAt,
                     correlationId |-> MetadataField(metadata, "correlationId"),
                     causationId |-> MetadataField(metadata, "causationId"),
                     userId |-> MetadataField(metadata, "userId")]]

\* the constructor of the concrete event class with this EVENT_NAME, called
\* with (payload, metadata): BookCreatedEvent, BookUpdatedEvent,
\* BookFinishedEvent, BookDeletedEvent and QuoteAddedEvent all declare
\* constructor(payload) and call super(EVENT_NAME, payload)
ConcreteEventConstructor(eventName, payload, metadata, uuid, now) ==
  DomainEventConstructor(eventName, payload, NoMetadata, uuid, now)

\* DomainEvent.withCorrelation(correlationId, causationId?)
withCorrelation(e, correlationId, causationId, uuid, now) ==
  ConcreteEventConstructor(e.eventName, e.payload,
    [e.metadata EXCEPT !.correlationId = correlationId,
                       !.causationId = IF causationId # Undefined THEN causationId
                                       ELSE e.eventId],
    uuid, now)

\* the concrete events of the book service: class (by its event name) and payload
ConcreteEvents ==
  {[eventName |-> e.eventName, payload |-> e.payload] :
     e \in {d \in EventsFor(1) : d.eventName # "library.author.created"}}

CorrelationIds == {101, 102}
CausationIds == {Undefined, 201}
MaxEvents == 4    \* SpecEvent: event objects constructed

NoEvent == [eventId |-> Undefined]

\* new BookCreatedEvent(payload), new BookUpdatedEvent(payload), ...
EventNew ==
  /\ ids.event < MaxEvents
  /\ \E c \in ConcreteEvents : \E dt \in {0, 1} :
       /\ clock' = clock + dt
       /\ op' = [name |-> "new", pre |-> NoBook, err |-> NoErr,
                 input |-> [event |-> NoEvent, correlationId |-> Undefined,
                            causationId |-> Undefined,
                            result |-> ConcreteEventConstructor(c.eventName, c.payload,
                                         NoMetadata, ids.event + 1, clock + dt),
                            after |-> NoEvent]]
  /\ ids' = [ids EXCEPT !.event = @ + 1]
  /\ UNCHANGED <<agg, dbVars, pipeVars, projVars, bus, mq>>

\* e.withCorrelation(c, k) or e.withCorrelation(c) on the event last returned;
\* the receiver is frozen, so it is afterwards what it was
EventWithCorrelation ==
  /\ ids.event < MaxEvents /\ op.name \in {"new", "withCorrelation"}
  /\ \E c \in CorrelationIds : \E k \in CausationIds : \E dt \in {0, 1} :
       /\ clock' = clock + dt
       /\ op' = [name |-> "withCorrelation", pre |-> NoBook, err |-> NoErr,
                 input |-> [event |-> op.input.result, correlationId |-> c,
                            causationId |-> k,
                            result |-> withCorrelation(op.input.result, c, k,
                                                       ids.event + 1, clock + dt),
                            after |-> op.input.result]]
  /\ ids' = [ids EXCEPT !.event = @ + 1]
  /\ UNCHANGED <<agg, dbVars, pipeVars, projVars, bus, mq>>

NextEvent ==
  \/ EventNew
  \/ EventWithCorrelation

SpecEvent == InitAll /\ [][NextEvent]_vars

(***************************************************************************)
(* SpecBus: a caller registers handlers on the command bus, executes       *)
(* commands and clears the bus.  bus.log records the calls in order, each  *)
(* with its arguments, the error it threw and the handler it invoked.      *)
(***************************************************************************)
MaxBusCalls == 4  \* SpecBus: calls made on the bus

BusCalled(call, commandName, handler, r) ==
  /\ bus' = [handlers |-> r.handlers,
             log |-> Append(bus.log, [call |-> call, name |-> commandName,
                                      handler |-> handler, err |-> r.err,
                                      result |-> r.result])]
  /\ UNCHANGED <<dbVars, envVars, cliVars, pipeVars, projVars, mq>>

\* commandBus.register(commandClass, handler)
BusRegister ==
  /\ Len(bus.log) < MaxBusCalls
  /\ \E c \in CommandNames : \E hd \in HandlerObjects :
       BusCalled("register", c, hd, register(bus.handlers, c, hd))

\* commandBus.execute(command)
BusExecute ==
  /\ Len(bus.log) < MaxBusCalls
  /\ \E c \in CommandNames : BusCalled("execute", c, NoHandler, execute(bus.handlers, c))

\* commandBus.clear()
BusClear ==
  /\ Len(bus.log) < MaxBusCalls
  /\ BusCalled("clear", "none", NoHandler, clear(bus.handlers))

NextBus ==
  \/ BusRegister
  \/ BusExecute
  \/ BusClear

SpecBus == InitAll /\ [][NextBus]_vars

(***************************************************************************)
(* SpecValue: value objects of the shared kernel and their equals.  A      *)
(* JavaScript value is a record with its kind: a primitive, undefined,     *)
(* null, or an object with its identity (ref), constructor and content.    *)
(* op.input = [vo, other, result, converse]: the receiver, the argument,   *)
(* vo.equals(other) and other.equals(vo).                                  *)
(***************************************************************************)
Primitive(v) == [kind |-> "primitive", v |-> v]
UndefinedValue == [kind |-> "undefined"]
NullValue == [kind |-> "null"]
SimpleValueObject(ref, ctor, value) ==
  [kind |-> "simple", ref |-> ref, ctor |-> ctor, value |-> value]
ValueObject(ref, ctor, props) ==
  [kind |-> "vo", ref |-> ref, ctor |-> ctor, props |-> props]

\* val1 === val2: primitives by value, objects by identity
StrictEquals(val1, val2) ==
  IF val1.kind \in {"simple", "vo"}
  THEN val2.kind = val1.kind /\ val2.ref = val1.ref
  ELSE val1 = val2

\* obj[key], undefined for a key the object does not have
Get(obj, key) == IF key \in DOMAIN obj THEN obj[key] ELSE UndefinedValue

\* ValueObject.equals and ValueObject.shallowEquals: the keys of obj1 are
\* walked and obj1[key] compared with obj2[key]; only values that are
\* instanceof ValueObject (SimpleValueObject does not extend it) are
\* compared with equals
RECURSIVE ValueObjectEquals(_, _)
shallowEquals(obj1, obj2) ==
  /\ Cardinality(DOMAIN obj1) = Cardinality(DOMAIN obj2)
  /\ \A key \in DOMAIN obj1 :
       LET val1 == obj1[key]
           val2 == Get(obj2, key)
       IN  IF val1.kind = "vo" /\ val2.kind = "vo"
           THEN ValueObjectEquals(val1, val2)
           ELSE StrictEquals(val1, val2)

ValueObjectEquals(vo, other) ==
  IF other.kind \in {"null", "undefined"} THEN FALSE
  ELSE IF other.ctor # vo.ctor THEN FALSE
  ELSE shallowEquals(vo.props, other.props)

\* SimpleValueObject.equals
SimpleValueObjectEquals(vo, other) ==
  IF other.kind \in {"null", "undefined"} THEN FALSE
  ELSE IF other.ctor # vo.ctor THEN FALSE
  ELSE StrictEquals(vo.value, other.value)

\* the simple value objects a caller builds: Email.create(...), Title.create(...)
SimpleObjects(ref) ==
  {SimpleValueObject(ref, c, Primitive(v)) : c \in {"Email", "Title"}, v \in {"s1", "s2"}}

\* the props of the value objects a caller builds: amounts, an optional
\* property left out or passed as undefined, a nested value object
PropsInputs(ref) ==
  { [amount |-> Primitive(100), currency |-> Primitive("USD")],
    [amount |-> Primitive(200), currency |-> Primitive("USD")],
    [amount |-> Primitive(100), currency |-> Primitive("EUR")],
    [amount |-> Primitive(100)],
    [amount |-> Primitive(100), note |-> UndefinedValue],
    [amount |-> Primitive(100), tag |-> Primitive("t")],
    [amount |-> Primitive(100), tag |-> UndefinedValue],
    [amount |-> Primitive(100), owner |-> SimpleValueObject(ref + 1, "Email", Primitive("s1"))],
    [amount |-> Primitive(100),
     fee |-> ValueObject(ref + 1, "Money",
                         [amount |-> Primitive(1), currency |-> Primitive("USD")])],
    [amount |-> Primitive(100),
     fee |-> ValueObject(ref + 1, "Money",
                         [amount |-> Primitive(2), currency |-> Primitive("USD")])] }

ValueObjects(ref) ==
  {ValueObject(ref, c, p) : c \in {"Money", "Price"}, p \in PropsInputs(ref)}

\* the arguments of equals for the receiver vo of a class: the receiver
\* itself, another object, null, undefined
Others(vo, objects) == {vo, NullValue, UndefinedValue} \cup objects

\* vo.equals(other) on a ValueObject
ValueEquals ==
  /\ \E vo \in ValueObjects(10) : \E other \in Others(vo, ValueObjects(20)) :
       op' = [name |-> "ValueObject.equals", pre |-> NoBook, err |-> NoErr,
              input |-> [vo |-> vo, other |-> other,
                         result |-> ValueObjectEquals(vo, other),
                         converse |-> IF other.kind = "vo"
                                      THEN ValueObjectEquals(other, vo) ELSE FALSE]]
  /\ UNCHANGED <<agg, dbVars, envVars, pipeVars, projVars, bus, mq>>

\* vo.equals(other) on a SimpleValueObject
SimpleValueEquals ==
  /\ \E vo \in SimpleObjects(10) : \E other \in Others(vo, SimpleObjects(20)) :
       op' = [name |-> "SimpleValueObject.equals", pre |-> NoBook, err |-> NoErr,
              input |-> [vo |-> vo, other |-> other,
                         result |-> SimpleValueObjectEquals(vo, other),
                         converse |-> IF other.kind = "simple"
                                      THEN SimpleValueObjectEquals(other, vo) ELSE FALSE]]
  /\ UNCHANGED <<agg, dbVars, envVars, pipeVars, projVars, bus, mq>>

NextValue ==
  \/ ValueEquals
  \/ SimpleValueEquals

SpecValue == InitAll /\ [][NextValue]_vars
(***************************************************************************)
(* SpecSync: one caller sends create, update, mark-finished and add-quote  *)
(* commands one after the other; the connection stays open and the process *)
(* does not restart, so every published event is delivered once, in        *)
(* publish order.  The commands carry every field a caller can set.        *)
(***************************************************************************)
SyncCreateInputs ==
  { [title |-> "t1", authorId |-> "a1", pageCount |-> 560],
    [title |-> " t2 ", authorId |-> "a1", pageCount |-> 300, status |-> FINISHED,
     yearRead |-> 2024, rating |-> 5, isbn |-> "978-1", coverUrl |-> "c1"] }
SyncUpdateInputs ==
  { [title |-> "t2", pageCount |-> 300], [coverUrl |-> "c2"], [rating |-> 4, yearRead |-> 2024] }
SyncFinishInputs == { [yearRead |-> 2025, rating |-> 5] }

SyncCommands(n) ==
  { [kind |-> "create", id |-> 0, arg |-> p] : p \in SyncCreateInputs }
  \cup { [kind |-> "update", id |-> i, arg |-> c] : i \in 1..n, c \in SyncUpdateInputs }
  \cup { [kind |-> "finish", id |-> i, arg |-> a] : i \in 1..n, a \in SyncFinishInputs }
  \cup { [kind |-> "addQuote", id |-> i, arg |-> q] : i \in 1..n, q \in PipeQuoteInputs }

\* the caller sends its next command when the answer to the last one is in
SyncDispatch ==
  /\ ~Running(h["h1"]) /\ started < MaxCmds
  /\ \E cmd \in SyncCommands(ids.book) :
       /\ cmd.kind = "create" => ids.book < MaxBooks
       /\ h' = [h EXCEPT !["h1"] =
                  [IdleHandler EXCEPT
                     !.cmd = cmd,
                     !.pc = IF cmd.kind = "create" THEN "find_isbn" ELSE "find_book"]]
  /\ started' = started + 1
  /\ UNCHANGED <<dbVars, envVars, cliVars, channel, queue, consumer, hist, projVars, bus, mq>>

NextSync ==
  \/ SyncDispatch
  \/ FindByIsbn("h1")
  \/ FindBook("h1")
  \/ FindQuotes("h1")
  \/ FindNotes("h1")
  \/ TxExists("h1")
  \/ TxWrite("h1")
  \/ TxCommit("h1")
  \/ Publish("h1")
  \/ ConsumerHandle
  \/ ConsumerAck

SpecSync == InitAll /\ [][NextSync]_vars
(***************************************************************************)
(* SpecRace: the two command handlers run concurrently while the broker    *)
(* connection stays open and the process does not restart, so no event is  *)
(* lost or delivered twice: what the read model receives is decided by the *)
(* interleaving of the handlers alone.                                     *)
(***************************************************************************)
NextRace ==
  \/ \E x \in Handlers : Dispatch(x)
  \/ \E x \in Handlers : FindByIsbn(x)
  \/ \E x \in Handlers : FindBook(x)
  \/ \E x \in Handlers : FindQuotes(x)
  \/ \E x \in Handlers : FindNotes(x)
  \/ \E x \in Handlers : TxExists(x)
  \/ \E x \in Handlers : TxWrite(x)
  \/ \E x \in Handlers : TxCommit(x)
  \/ \E x \in Handlers : Publish(x)
  \/ ConsumerHandle
  \/ ConsumerAck

SpecRace == InitAll /\ [][NextRace]_vars
(***************************************************************************)
(* SpecCreate: two callers send CreateBook commands with ISBNs written     *)
(* with and without dashes.  The write store is the library_books database *)
(* as the Docker bootstrap script creates it: its books table declares     *)
(* isbn VARCHAR(20) without a unique constraint, and initializeDatabase    *)
(* (CREATE TABLE IF NOT EXISTS) leaves an existing table as it is.         *)
(***************************************************************************)
IsbnCreateInputs ==
  { [title |-> "t1", authorId |-> "a1", pageCount |-> 560, isbn |-> "9781"],
    [title |-> "t1", authorId |-> "a1", pageCount |-> 560, isbn |-> "978-1"],
    [title |-> "t2", authorId |-> "a1", pageCount |-> 300, isbn |-> "9782"] }

CreateDispatch(x) ==
  /\ ~Running(h[x]) /\ started < MaxCmds
  /\ ids.book + Creating < MaxBooks
  /\ \E p \in IsbnCreateInputs :
       h' = [h EXCEPT ![x] =
               [IdleHandler EXCEPT !.cmd = [kind |-> "create", id |-> 0, arg |-> p],
                                   !.pc = "find_isbn"]]
  /\ started' = started + 1
  /\ UNCHANGED <<dbVars, envVars, cliVars, channel, queue, consumer, hist, projVars, bus, mq>>

\* the outcome of the statement that writes the book row when the isbn
\* column has no unique constraint: only the primary key rejects an INSERT
WriteOutcomeInitSql(e) ==
  IF e.cmd.kind = "delete" THEN NoErr
  ELSE IF e.exists
    THEN IF update(books, e.book).rowCount = 0 THEN ConflictError ELSE NoErr
  ELSE IF existsInTransaction(books, e.book.id) THEN UniqueViolation
  ELSE NoErr

\* the statement that writes the book row, on the table of the bootstrap script
TxWriteInitSql(x) ==
  /\ h[x].pc = "tx_write"
  /\ ~MustWait(x, h[x].book.id, NullS)
  /\ LET e == [h[x] EXCEPT
                 !.attempts = @ + 1,
                 !.rowCount = IF h[x].cmd.kind # "delete" /\ h[x].exists
                              THEN update(books, h[x].book).rowCount ELSE @]
     IN  h' = [h EXCEPT ![x] = AfterWrite(e, WriteOutcomeInitSql(e))]
  /\ UNCHANGED <<dbVars, envVars, cliVars, started, channel, queue, consumer, hist, projVars, bus, mq>>

NextCreate ==
  \/ \E x \in Handlers : CreateDispatch(x)
  \/ \E x \in Handlers : FindByIsbn(x)
  \/ \E x \in Handlers : TxExists(x)
  \/ \E x \in Handlers : TxWriteInitSql(x)
  \/ \E x \in Handlers : TxCommit(x)
  \/ \E x \in Handlers : Publish(x)

SpecCreate == InitAll /\ [][NextCreate]_vars
(***************************************************************************)
(* SpecConn: the broker connection of rabbitmq.ts.  Callers run            *)
(* connectRabbitMQ, which advances one awaited call at a time; the broker  *)
(* may close any open connection; closeRabbitMQ is called at shutdown.     *)
(* mq.open holds the connections that are open at the broker, and          *)
(* mq.listeners those that carry the 'close' listener of connectRabbitMQ.  *)
(***************************************************************************)
MaxConnects == 3  \* SpecConn: connections opened by amqp.connect

\* getChannel throws 'RabbitMQ not connected'
getChannelThrows == mq.channel = NullRef

\* healthCheck: channel !== null && connection !== null
rabbitHealthCheck == mq.channel # NullRef /\ mq.connection # NullRef

\* the call of c ends with an exception (the catch block rethrows)
CallThrew == [pc |-> "threw", conn |-> NullRef, result |-> NullRef]

\* connectRabbitMQ up to its first await: if (channel) return channel
ConnectCall(c) ==
  /\ mq.calls[c].pc \in {"idle", "returned", "threw"}
  /\ IF mq.channel # NullRef
     THEN mq' = [mq EXCEPT !.calls[c] = [pc |-> "returned", conn |-> NullRef,
                                         result |-> mq.channel]]
     ELSE /\ mq.opened < MaxConnects
          /\ mq' = [mq EXCEPT !.calls[c] = [pc |-> "connecting", conn |-> NullRef,
                                            result |-> NullRef]]
  /\ UNCHANGED <<dbVars, envVars, cliVars, pipeVars, projVars, bus>>

\* connection = await amqp.connect(url) resolves; connection.createChannel()
\* is called on the new connection
ConnectResolved(c) ==
  /\ mq.calls[c].pc = "connecting"
  /\ LET k == mq.opened + 1
     IN  mq' = [mq EXCEPT !.opened = k, !.open = @ \cup {k}, !.connection = k,
                          !.calls[c] = [pc |-> "creating", conn |-> k, result |-> NullRef]]
  /\ UNCHANGED <<dbVars, envVars, cliVars, pipeVars, projVars, bus>>

\* amqp.connect rejects (the broker is unreachable)
ConnectRejected(c) ==
  /\ mq.calls[c].pc = "connecting"
  /\ mq' = [mq EXCEPT !.calls[c] = CallThrew]
  /\ UNCHANGED <<dbVars, envVars, cliVars, pipeVars, projVars, bus>>

\* channel = await connection.createChannel() resolves, or rejects because
\* the connection was closed; channel.assertExchange is called
ChannelCreated(c) ==
  /\ mq.calls[c].pc = "creating"
  /\ mq' = IF mq.calls[c].conn \in mq.open
           THEN [mq EXCEPT !.channel = mq.calls[c].conn, !.calls[c].pc = "asserting"]
           ELSE [mq EXCEPT !.calls[c] = CallThrew]
  /\ UNCHANGED <<dbVars, envVars, cliVars, pipeVars, projVars, bus>>

\* await channel.assertExchange(...) resolves, or rejects because the
\* connection was closed; then connection.on('close', ...) on whatever the
\* module's connection is now (a TypeError when it is null), return channel
ExchangeAsserted(c) ==
  /\ mq.calls[c].pc = "asserting"
  /\ mq' = IF mq.calls[c].conn \notin mq.open \/ mq.connection = NullRef
           THEN [mq EXCEPT !.calls[c] = CallThrew]
           ELSE [mq EXCEPT !.listeners = @ \cup {mq.connection},
                           !.calls[c] = [pc |-> "returned", conn |-> NullRef,
                                         result |-> mq.channel]]
  /\ UNCHANGED <<dbVars, envVars, cliVars, pipeVars, projVars, bus>>

\* the broker or the network closes connection k; its 'close' listener, if
\* registered, sets the module's connection and channel to null
BrokerCloses(k) ==
  /\ k \in mq.open
  /\ mq' = IF k \in mq.listeners
           THEN [mq EXCEPT !.open = @ \ {k}, !.listeners = @ \ {k},
                           !.connection = NullRef, !.channel = NullRef]
           ELSE [mq EXCEPT !.open = @ \ {k}]
  /\ UNCHANGED <<dbVars, envVars, cliVars, pipeVars, projVars, bus>>

\* closeRabbitMQ: channel.close() and connection.close() on the module's
\* references; closing a channel or connection that is already closed
\* throws, and the catch block only logs
closeRabbitMQ ==
  /\ mq.channel # NullRef \/ mq.connection # NullRef
  /\ mq' = IF mq.channel # NullRef /\ mq.channel \notin mq.open THEN mq
           ELSE IF mq.connection = NullRef THEN [mq EXCEPT !.channel = NullRef]
           ELSE IF mq.connection \notin mq.open THEN [mq EXCEPT !.channel = NullRef]
           ELSE [mq EXCEPT !.open = @ \ {mq.connection},
                           !.listeners = @ \ {mq.connection},
                           !.connection = NullRef, !.channel = NullRef]
  /\ UNCHANGED <<dbVars, envVars, cliVars, pipeVars, projVars, bus>>

NextConn ==
  \/ \E c \in Callers : ConnectCall(c)
  \/ \E c \in Callers : ConnectResolved(c)
  \/ \E c \in Callers : ConnectRejected(c)
  \/ \E c \in Callers : ChannelCreated(c)
  \/ \E c \in Callers : ExchangeAsserted(c)
  \/ \E k \in 1..MaxConnects : BrokerCloses(k)
  \/ closeRabbitMQ

SpecConn == InitAll /\ [][NextConn]_vars

(***************************************************************************)
(* Claims about the aggregate (SpecAgg).  `op` is the call just made:      *)
(* op.pre the aggregate before it, agg the aggregate after it.             *)
(***************************************************************************)

\* C10: for all valid creation inputs, Book.create returns an aggregate with
\* version 0 whose outbox holds exactly one event, a creation event that
\* carries the new book's identity.
C10_CreateVersionZeroOneCreatedEvent ==
  (op.name = "create" /\ op.err = NoErr) =>
    /\ agg # NoBook
    /\ agg.version = 0
    /\ Len(agg.domainEvents) = 1
    /\ agg.domainEvents[1].eventName = "library.book.created"
    /\ agg.domainEvents[1].payload.bookId = agg.id

C10_Witness ==
  /\ op.name = "create" /\ op.err = NoErr
  /\ agg.pageCount = 560 /\ agg.status = READING

\* the transitions a status change is asked to make outside the table
IllegalTransitionRequested ==
  /\ op.name = "changeStatus"
  /\ op.input # op.pre.status
  /\ op.input \notin getAllowedTransitions(op.pre.status)

FoundAfterSave == op.name = "findById" /\ op.input.afterSave

\* C6 (as stated): after a successful save(book), findById(book.id) returns an
\* aggregate whose observable state (fields, quotes, notes) equals that of the
\* saved aggregate and whose version is the pre-save version plus one.
C6_FindByIdReturnsSavedStateVersionPlusOne ==
  FoundAfterSave =>
    /\ agg # NoBook
    /\ Observable(agg) = Observable(op.pre)
    /\ agg.version = op.pre.version + 1

\* C6: the round trip of an aggregate holding a note whose content was updated
C6_Witness ==
  /\ FoundAfterSave
  /\ Len(op.pre.notes) = 1
  /\ op.pre.notes[1].updatedAt # op.pre.notes[1].createdAt


(***************************************************************************)
(* Claims about the projections (SpecProj).  proj.once is the read store   *)
(* after the first application of proj.event, readStore the store after    *)
(* the second.                                                             *)
(***************************************************************************)

\* C4 (as stated): for every projection handler, every event and every
\* read-store state, applying the handler to the same event twice yields the
\* read documents that applying it once yields.
C4_ProjectionAppliedTwiceEqualsOnce ==
  proj.n = 2 => readStore = proj.once

\* C4: a quote_added message applied twice to an existing document
C4_Witness ==
  /\ proj.n = 2
  /\ proj.event.eventName = "library.book.quote_added"
  /\ proj.before[proj.event.payload.bookId] # NoDoc


(***************************************************************************)
(* Claims about the pipeline (Spec).                                       *)
(***************************************************************************)
SaveKinds == {"update", "finish", "addQuote"}

\* the save call of execution e has returned or thrown
SaveEnded(e) ==
  /\ e.cmd.kind \in SaveKinds
  /\ e.attempts > 0
  /\ e.pc \in {"publish", "done"}
  /\ e.err # NoResponse

\* two executions that loaded the same book at the same version and whose
\* save calls have both ended
RacedSaves(x, y) ==
  /\ x # y
  /\ SaveEnded(h[x]) /\ SaveEnded(h[y])
  /\ h[x].cmd.id = h[y].cmd.id
  /\ h[x].row.version = h[y].row.version

\* C1: of two commands that loaded a book at the same version v and saved
\* concurrently, exactly one save succeeds, the other fails with the
\* concurrency conflict, and the persisted row with its quotes and notes is
\* the winner's aggregate at version v + 1.
C1_ConcurrentSavesOneWinner ==
  \A x, y \in Handlers :
    (RacedSaves(x, y) /\ h[x].written) =>
      /\ ~h[y].written
      /\ h[y].err = ConflictError
      /\ Observable(findById(books, quotes, notes, h[x].cmd.id)) = Observable(h[x].book)
      /\ findById(books, quotes, notes, h[x].cmd.id).version = h[x].row.version + 1

\* C1 holds for every pair only if some save of a pair succeeds
C1_Witness ==
  \E x, y \in Handlers :
    /\ RacedSaves(x, y)
    /\ h[x].written /\ h[x].cmd.kind = "addQuote"
    /\ h[y].err = ConflictError /\ h[y].cmd.kind = "update" /\ h[y].book.title = "t2"

\* C2: an event is handed to the publisher only after the write of its
\* command was committed; no event of a command whose write failed is ever
\* published.
C2_PublishedOnlyAfterCommittedWrite ==
  /\ hist.published \subseteq hist.committed
  /\ \A x \in Handlers :
       (h[x].attempts > 0 /\ ~h[x].written /\ h[x].pc = "done") =>
         EventIds(h[x].book) \cap hist.published = {}

C2_Witness ==
  /\ hist.published # {}
  /\ \E x \in Handlers :
       /\ h[x].pc = "done" /\ h[x].err = ConflictError
       /\ EventIds(h[x].book) # {}

\* every handler has ended, the queue is drained
Quiescent ==
  /\ \A x \in Handlers : ~Running(h[x])
  /\ queue = <<>>
  /\ consumer = "waiting"

\* C3 (as stated): every committed write is followed by its read-model
\* update; once the system has come to rest, the event of every committed
\* write has been applied by the projection.
C3_CommittedWritesReachReadModel ==
  Quiescent => hist.committed \subseteq hist.applied

\* C3: a committed write whose event was published and applied, at rest
C3_Witness ==
  /\ Quiescent
  /\ hist.committed # {}
  /\ hist.committed \subseteq hist.applied

\* the persisted state of book id apart from its version
Durable(bks, qs, ns, id) ==
  [row |-> [bks[id] EXCEPT !.version = 0],
   quotes |-> {r \in qs : r.book_id = id},
   notes |-> {r \in ns : r.book_id = id}]

\* C5 (as stated): the persisted version of a book never decreases, and it
\* increases only together with a change of the book's persisted state.
C5_VersionIncreasesOnlyWithDurableChange ==
  [][\A id \in BookIds :
       (books[id] # NoRow /\ books'[id] # NoRow) =>
         /\ books'[id].version >= books[id].version
         /\ books'[id].version > books[id].version =>
              Durable(books', quotes', notes', id) # Durable(books, quotes, notes, id)]_vars

\* C5: a no-op UpdateBook has committed
C5_Witness ==
  \E x \in Handlers :
    /\ h[x].cmd.kind = "update" /\ h[x].written
    /\ h[x].book.domainEvents = <<>>
    /\ h[x].pc = "done" /\ h[x].err = NoErr

\* C7 (as stated): an update that matched zero rows raises an error of the
\* concurrency-conflict kind, after exactly one update attempt, and the
\* handler returns that error.
C7_ZeroRowUpdateRaisesConcurrencyException ==
  \A x \in Handlers :
    h[x].rowCount = 0 =>
      /\ h[x].attempts = 1
      /\ h[x].pc = "done"
      /\ h[x].err = ConcurrencyException

C7_Witness ==
  \E x \in Handlers : h[x].rowCount = 0 /\ h[x].pc = "done" /\ h[x].attempts = 1

\* C8: when the publish step fails after a committed write, the handler ends
\* with the publisher's error, the write stays committed, the outbox still
\* holds the events, and none of them has reached the broker or the read
\* model.
C8_PublishFailureKeepsWriteAndOutbox ==
  \A x \in Handlers :
    (h[x].pc = "done" /\ h[x].err = NotConnectedError) =>
      /\ h[x].written
      /\ EventIds(h[x].book) # {}
      /\ EventIds(h[x].book) \subseteq hist.committed
      /\ EventIds(h[x].book) \cap hist.published = {}
      /\ EventIds(h[x].book) \cap hist.applied = {}

C8_Witness ==
  \E x \in Handlers :
    /\ h[x].pc = "done" /\ h[x].err = NotConnectedError
    /\ h[x].cmd.kind = "finish"
    /\ books[h[x].cmd.id] # NoRow /\ books[h[x].cmd.id].status = FINISHED
    /\ readStore[h[x].cmd.id] # NoDoc /\ readStore[h[x].cmd.id].status = TO_READ

(***************************************************************************)
(* Claims about the aggregate's update and finish methods (SpecAgg)        *)
(***************************************************************************)
\* the value updateDetails compares with the current one for field f
SuppliedValue(f, v) ==
  CASE f = "title" -> TitleNormalize(v)
    [] f = "coverUrl" -> CoverNormalize(v)
    [] OTHER -> v

\* the supplied fields whose value differs from the current one
DifferingFields(b, ch) == {f \in DOMAIN ch : SuppliedValue(f, ch[f]) # b[f]}

UpdateDetailsReturned == op.name = "updateDetails" /\ op.err = NoErr

\* the events the last call appended to the outbox
NewEvents == SubSeq(agg.domainEvents, Len(op.pre.domainEvents) + 1, Len(agg.domainEvents))

\* C11: updateDetails emits no event and keeps the version when every supplied
\* field equals the current value; otherwise it emits exactly one update event
\* whose change-set holds exactly the supplied fields that differ.
C11_UpdateDetailsFieldLevelNoOp ==
  UpdateDetailsReturned =>
    LET d == DifferingFields(op.pre, op.input)
    IN  /\ agg.version = op.pre.version
        /\ IF d = {} THEN NewEvents = <<>>
           ELSE /\ Len(NewEvents) = 1
                /\ NewEvents[1].eventName = "library.book.updated"
                /\ DOMAIN NewEvents[1].payload.changes = d
                /\ \A f \in d :
                     NewEvents[1].payload.changes[f] = SuppliedValue(f, op.input[f])

\* C11: a call that supplied only the current title has returned
C11_Witness ==
  /\ UpdateDetailsReturned
  /\ op.input = [title |-> "t1"] /\ op.pre.title = "t1"
  /\ NewEvents = <<>>

\* markAsFinished(y, r) was called on a READING book with a valid year and rating
FinishCalledOnReading ==
  /\ op.name = "markAsFinished"
  /\ op.pre.status = READING
  /\ YearValid(op.input.yearRead)
  /\ Has(op.input, "rating") /\ RatingValid(op.input.rating)

\* C12: for a READING book and valid yearRead y and rating r, markAsFinished
\* appends exactly one BookFinishedEvent carrying y and r and leaves the
\* aggregate FINISHED with yearRead = y and rating = r.
C12_MarkAsFinishedOneEventStateFinished ==
  FinishCalledOnReading =>
    /\ op.err = NoErr
    /\ Len(NewEvents) = 1
    /\ NewEvents[1].eventName = "library.book.finished"
    /\ NewEvents[1].payload.bookId = op.pre.id
    /\ NewEvents[1].payload.yearRead = op.input.yearRead
    /\ NewEvents[1].payload.rating = op.input.rating
    /\ agg.status = FINISHED
    /\ agg.yearRead = op.input.yearRead
    /\ agg.rating = op.input.rating

\* C12: the spec's scenario, pageCount 560, READING, markAsFinished(2024, 5)
C12_Witness ==
  /\ FinishCalledOnReading
  /\ op.pre.pageCount = 560
  /\ op.input = [yearRead |-> 2024, rating |-> 5]
  /\ agg.status = FINISHED

(***************************************************************************)
(* Claims about the projection consumer (SpecConsumer)                     *)
(***************************************************************************)
InQueue(e) == \E i \in 1..Len(queue) : queue[i].eventId = e

\* a step of the running consumer that ends a delivery
DeliveryEnds ==
  /\ consumer # "waiting" /\ consumer' = "waiting"
  /\ channel' /\ hist'.crashes = hist.crashes

AckStep == hist'.acked # hist.acked
NackStep == hist'.nacked # hist.nacked

\* C13: each delivery ended by the running consumer gets exactly one of ack or
\* nack; ack only after the handler applied the message, nack only after
\* parsing or applying failed, and a nacked message is removed from the queue
\* and never comes back.
C13_EachDeliveryAckedOrNackedOnce ==
  /\ [](/\ hist.acked \cap hist.nacked = {}
        /\ hist.acked \subseteq hist.applied
        /\ \A e \in hist.nacked : ~InQueue(e))
  /\ [][/\ DeliveryEnds => (AckStep /\ ~NackStep) \/ (NackStep /\ ~AckStep)
        /\ Len(queue') < Len(queue) => AckStep \/ NackStep
        /\ AckStep => /\ consumer = "handled"
                      /\ hist'.acked = hist.acked \cup {Head(queue).eventId}
                      /\ queue' = Tail(queue)
        /\ NackStep => /\ consumer = "failed"
                       /\ hist'.nacked = hist.nacked \cup {Head(queue).eventId}
                       /\ queue' = Tail(queue)]_vars

\* C13: one message was acknowledged after it was applied, the malformed one
\* was rejected, and nothing is left on the queue
C13_Witness ==
  /\ hist.acked # {}
  /\ MalformedMessage.eventId \in hist.nacked
  /\ queue = <<>>

\* the message the broker routed to the queue under event id e
MessageOf(e) == CHOOSE m \in ConsumerMessages : m.eventId = e

\* the event names createProjectionRouter has a case for
RouterCases ==
  {"library.book.created", "library.book.updated", "library.book.deleted",
   "library.book.quote_added", "library.book.finished"}

\* a projection handler ran for the message and returned
AppliedToReadModel(e) ==
  /\ e \in hist.applied
  /\ Parses(MessageOf(e)) /\ MessageOf(e).eventName \in RouterCases

\* C14 (as stated): every message routed to the consumer's queue is still on
\* the queue (pending or requeued) or was applied to the read model; the queue
\* is declared without a dead-letter exchange, so there is no third place.
C14_NoMessageSilentlyDropped ==
  \A e \in hist.published : InQueue(e) \/ AppliedToReadModel(e)

\* C14: a created event was applied and acknowledged
C14_Witness ==
  /\ 1 \in hist.acked /\ AppliedToReadModel(1)
  /\ readStore[1] # NoDoc

(***************************************************************************)
(* Claims about the publisher (SpecPublish)                                *)
(***************************************************************************)
\* publishAll was called and op records how far it got
PublishAllCalled == op.name \in {"publishAll", "publishAllReturned"}

\* the messages the call has put on the queue
PublishedByCall == SubSeq(queue, Len(op.input.q0) + 1, Len(queue))

\* C15: publishAll hands the events to the broker one at a time in emission
\* order: at every point of a call the queue has gained exactly the first
\* `done` events of the outbox, in the order the aggregate emitted them, and
\* after a failed publish nothing more is added.
C15_PublishAllInEmissionOrder ==
  PublishAllCalled =>
    /\ op.input.done <= Len(op.pre.domainEvents)
    /\ queue = op.input.q0 \o
                 [i \in 1..op.input.done |-> ToJSON(op.pre.domainEvents[i])]
    /\ \A i, j \in 1..Len(PublishedByCall) :
         i < j => PublishedByCall[i].eventId < PublishedByCall[j].eventId
    /\ op.name = "publishAllReturned" => op.input.done = Len(op.pre.domainEvents)

\* C15: the first event of a command was published, the second publish failed
C15_Witness ==
  /\ op.name = "publishAll" /\ op.err = NotConnectedError
  /\ op.input.done = 1 /\ Len(op.pre.domainEvents) >= 2
  /\ Len(PublishedByCall) = 1

(***************************************************************************)
(* Claims about insert and the children's synchronization (Spec)           *)
(***************************************************************************)
\* C16 (as stated): whenever save inserts a row, for an identity that has no
\* persisted row, the inserted row has version 1, whatever the version of the
\* aggregate at the time of the call.
C16_InsertedRowHasVersionOne ==
  [][\A id \in BookIds :
       (books[id] = NoRow /\ books'[id] # NoRow) => books'[id].version = 1]_vars

\* C16: the save of a new aggregate has inserted its row at version 1
C16_Witness ==
  \E x \in Handlers :
    /\ h[x].cmd.kind = "create" /\ h[x].written
    /\ books[h[x].book.id] # NoRow
    /\ books[h[x].book.id].version = 1

\* the persisted rows of book id
Persisted(bks, qs, ns, id) ==
  [row |-> bks[id],
   quotes |-> {r \in qs : r.book_id = id},
   notes |-> {r \in ns : r.book_id = id}]

\* what the snapshot b of an aggregate looks like when persisted
ImageOf(b) ==
  [row |-> BookRowOf(b),
   quotes |-> {QuoteRowOf(q) : q \in SeqToSet(b.quotes)},
   notes |-> {NoteRowOf(n) : n \in SeqToSet(b.notes)}]

\* C17: the book row and its quotes and notes change together: every step
\* that changes anything persisted for a book either removes the row with all
\* its children or replaces row, quotes and notes by those of one aggregate
\* snapshot, at that snapshot's version plus one; a save that fails or a
\* process that exits changes nothing.
C17_ChildrenCommitWithTheRow ==
  [][\A id \in BookIds :
       Persisted(books', quotes', notes', id) # Persisted(books, quotes, notes, id) =>
         \E x \in Handlers :
           /\ h[x].pc = "tx_commit" /\ h'[x].written
           /\ h[x].book.id = id
           /\ IF h[x].cmd.kind = "delete"
              THEN Persisted(books', quotes', notes', id) =
                     [row |-> NoRow, quotes |-> {}, notes |-> {}]
              ELSE Persisted(books', quotes', notes', id) = ImageOf(h[x].book)]_vars

\* C17: an AddQuote command has committed the row together with its quote
C17_Witness ==
  \E x \in Handlers :
    /\ h[x].cmd.kind = "addQuote" /\ h[x].written
    /\ Persisted(books, quotes, notes, h[x].book.id) = ImageOf(h[x].book)
    /\ Persisted(books, quotes, notes, h[x].book.id).quotes # {}

(***************************************************************************)
(* Claims about the projections (SpecProj)                                 *)
(***************************************************************************)
\* the last delivery was of a message that a handler had already applied
RedeliveredLater == proj.n = 1 /\ proj.again

\* C18 (as stated): the redelivery of an event that was already applied, at
\* any later point, also after other events were applied in between, leaves
\* the read store unchanged.
C18_LaterRedeliveryLeavesDocumentUnchanged ==
  RedeliveredLater => proj.once = proj.before

\* C18: an update event was delivered again and the document stayed the same
C18_Witness ==
  /\ RedeliveredLater
  /\ proj.event.eventName = "library.book.updated"
  /\ proj.before[proj.event.payload.bookId] # NoDoc
  /\ proj.once = proj.before

\* C19: a read document for a book id exists exactly when a created event for
\* the id was applied and no deleted event for it was applied afterwards;
\* update, finished and quote-added events create no document.
C19_DocumentExistsIffCreatedAndNotDeleted ==
  /\ \A id \in BookIds : readStore[id] # NoDoc <=> id \in proj.live
  /\ proj.n >= 1 =>
       \A id \in BookIds :
         (proj.before[id] = NoDoc /\ readStore[id] # NoDoc) =>
           proj.event.eventName = "library.book.created"

\* C19: an update event for a book without a document was handled and no
\* document came into being, while another book has its document
C19_Witness ==
  /\ proj.n >= 1 /\ ~proj.threw
  /\ proj.event.eventName \in {"library.book.updated", "library.book.finished",
                               "library.book.quote_added"}
  /\ readStore[proj.event.payload.bookId] = NoDoc
  /\ \E id \in BookIds : readStore[id] # NoDoc

\* the last delivery applied a library.book.updated event to an existing document
FieldChangeApplied ==
  /\ proj.n = 1 /\ ~proj.threw
  /\ proj.event.eventName = "library.book.updated"
  /\ proj.before[proj.event.payload.bookId] # NoDoc

\* the fields of a read document other than updatedAt
DocFields ==
  {"_id", "title", "authorId", "authorName", "pageCount", "isbn", "yearRead", "status",
   "rating", "coverUrl", "quotes", "notes", "quotesCount", "notesCount", "createdAt"}

\* the null of document field f
NullOf(f) == IF f \in {"yearRead", "rating", "pageCount"} THEN NullN ELSE NullS

\* C20: applying a field-change event changes only the document fields present
\* in the change-set, plus updatedAt; every other field, the quotes and notes
\* arrays and the counters stay, other documents stay, and a field present
\* with value null is null afterwards.
C20_FieldChangeTouchesOnlyChangeSet ==
  FieldChangeApplied =>
    LET id == proj.event.payload.bookId
        ch == proj.event.payload.changes
        before == proj.before[id]
        after == proj.once[id]
    IN  /\ DOMAIN after = DOMAIN before
        /\ \A f \in DocFields \ DOMAIN ch : after[f] = before[f]
        /\ \A f \in DocFields \cap DOMAIN ch : ch[f] = NullOf(f) => after[f] = NullOf(f)
        /\ after.updatedAt = proj.event.payload.updatedAt
        /\ \A other \in BookIds \ {id} : proj.once[other] = proj.before[other]

\* C20: a change-set with yearRead and rating null was applied to the document
\* of a finished book
C20_Witness ==
  /\ FieldChangeApplied
  /\ DOMAIN proj.event.payload.changes = {"yearRead", "rating"}
  /\ proj.before[proj.event.payload.bookId].rating = 5
  /\ proj.once[proj.event.payload.bookId].rating = NullN
  /\ proj.once[proj.event.payload.bookId].status = FINISHED

\* C21: in every read-store state each book document's quotesCount equals the
\* length of its quotes array: the quote-added handler pushes the quote and
\* increments the counter in one update, and no other handler touches either.
C21_QuotesCountEqualsQuotesLength ==
  \A id \in BookIds :
    readStore[id] # NoDoc => readStore[id].quotesCount = Len(readStore[id].quotes)

\* C21: a quote-added event was applied to a document that already held a
\* quote (here by the redelivery of the event), so the counter stands at two
C21_Witness ==
  /\ proj.n >= 1 /\ ~proj.threw
  /\ proj.event.eventName = "library.book.quote_added"
  /\ readStore[proj.event.payload.bookId] # NoDoc
  /\ Len(readStore[proj.event.payload.bookId].quotes) = 2
  /\ readStore[proj.event.payload.bookId].quotesCount = 2

(***************************************************************************)
(* Claims about the two stores and their writers (SpecQuery)               *)
(***************************************************************************)
\* the step is the consume callback handing a message to the projection router
ProjectionStep == consumer = "waiting" /\ consumer' \in {"handled", "failed"}

\* the step is the commit of a repository save or delete
SaveOrDeleteStep == \E x \in Handlers : h[x].pc = "tx_commit" /\ h'[x].pc = "publish"

\* the step is one of a command handler execution
CommandHandlerStep == h' # h

\* the step is the answer to a read-repository query
QueryStep == op' # op

\* C22: the read store changes only in steps of the projection handlers and
\* the write store only in the commit of a repository save or delete; a step
\* of a command handler leaves the read store as it is, and a read-repository
\* query leaves both stores as they are.
C22_StoresChangeOnlyThroughTheirWriters ==
  [][/\ readStore' # readStore => ProjectionStep
     /\ dbVars' # dbVars => SaveOrDeleteStep
     /\ CommandHandlerStep => readStore' = readStore
     /\ QueryStep => readStore' = readStore /\ dbVars' = dbVars]_vars

\* C22: a query was answered from a document the projection has written, for
\* a book whose row a command handler has saved and then updated
C22_Witness ==
  /\ op.name = "findById" /\ op.input.result # NullDto
  /\ readStore[op.input.arg] # NoDoc
  /\ books[op.input.arg] # NoRow /\ books[op.input.arg].version > 1
  /\ h["h1"].pc = "done" /\ h["h1"].written

(***************************************************************************)
(* Claims about the events of the business methods (SpecAgg)               *)
(***************************************************************************)
\* the last call was a successful state-changing business method
StateChangingCall ==
  /\ op.err = NoErr
  /\ \/ op.name \in {"create", "markAsFinished", "addQuote", "addNote", "removeQuote",
                      "removeNote", "markAsDeleted"}
     \/ op.name = "updateDetails" /\ DifferingFields(op.pre, op.input) # {}
     \/ op.name = "changeStatus" /\ op.input # op.pre.status

\* the number of events the last call appended to the outbox
EventsAppended ==
  IF op.name = "create" THEN Len(agg.domainEvents)
  ELSE Len(agg.domainEvents) - Len(op.pre.domainEvents)

\* C23 (as stated): every successful state-changing business method (create,
\* updateDetails with a real change, changeStatus to a different status,
\* markAsFinished, addQuote, addNote, removeQuote, removeNote, markAsDeleted)
\* appends exactly one domain event to the outbox.
C23_StateChangingMethodAppendsOneEvent ==
  StateChangingCall => EventsAppended = 1

\* C23: a note was added to a book and the outbox is as it was
C23_Witness ==
  /\ op.name = "addNote" /\ op.err = NoErr
  /\ Len(agg.notes) = Len(op.pre.notes) + 1
  /\ EventsAppended = 0

(***************************************************************************)
(* Claims about rejected input (SpecAgg)                                   *)
(***************************************************************************)
\* the errors with which the value objects and the aggregate reject input
ValidationErrors ==
  {DomainException(c) : c \in {"INVALID_TITLE", "INVALID_PAGE_COUNT", "INVALID_ISBN",
                               "INVALID_RATING", "INVALID_YEAR", "INVALID_BOOK",
                               "INVALID_QUOTE", "INVALID_NOTE"}}

\* the last call rejected its input with a validation error
ValidationRejected == op.name # "none" /\ op.err \in ValidationErrors

\* C24 (as stated): when a business operation rejects its input with a
\* validation error, no field of the aggregate has been mutated and no event
\* has been appended: the aggregate is as it was before the call.
C24_ValidationErrorLeavesAggregateUntouched ==
  ValidationRejected => agg = op.pre

\* C24: markAsFinished was given an invalid rating with a valid year and the
\* aggregate, which had events in its outbox, is as it was
C24_Witness ==
  /\ op.name = "markAsFinished" /\ op.err = DomainException("INVALID_RATING")
  /\ YearValid(op.input.yearRead)
  /\ Len(op.pre.domainEvents) > 0
  /\ agg = op.pre

(***************************************************************************)
(* Claims about commands for a book that has no row (Spec)                 *)
(***************************************************************************)
\* the execution x is about to read the row of its book and there is none
RowMissing(x) == h[x].pc = "find_book" /\ books[h[x].cmd.id] = NoRow

\* the step is one of the execution x itself (not the exit of the process)
OwnStep(x) == h'[x] # h[x] /\ hist'.crashes = hist.crashes

\* C25: a command (update, mark-finished, add-quote, delete) for a book id
\* with no persisted row ends, in the step that finds no row, with the
\* not-found error for its caller; that step writes nothing to the write
\* store and publishes nothing, and the ended execution has made no write
\* attempt, built no aggregate and is not run again.
C25_MissingBookFailsNotFoundWithoutEffect ==
  /\ [](\A x \in Handlers :
          h[x].err = EntityNotFoundException =>
            /\ h[x].pc = "done"
            /\ h[x].cmd.kind \in {"update", "finish", "addQuote", "delete"}
            /\ h[x].book = NoBook
            /\ h[x].attempts = 0
            /\ ~h[x].written)
  /\ [][\A x \in Handlers :
          (RowMissing(x) /\ OwnStep(x)) =>
            /\ h'[x].pc = "done"
            /\ h'[x].err = EntityNotFoundException
            /\ UNCHANGED <<dbVars, queue, hist>>]_vars

\* C25: a delete command for a book that an earlier command has deleted
\* ended with the not-found error
C25_Witness ==
  \E x \in Handlers :
    /\ h[x].pc = "done" /\ h[x].err = EntityNotFoundException
    /\ h[x].cmd.kind = "delete"
    /\ books[h[x].cmd.id] = NoRow
    /\ \E e \in hist.published : e \in hist.committed

(***************************************************************************)
(* Claims about domain event objects (SpecEvent)                           *)
(***************************************************************************)
WithCorrelationReturned == op.name = "withCorrelation"

\* C26 (as stated): for every concrete domain event e, e.withCorrelation(c, k)
\* returns a new event with the same event name and payload whose metadata
\* has correlationId = c and causationId = k (e's eventId when k is omitted),
\* and leaves e's payload and metadata unchanged.
C26_WithCorrelationSetsCorrelationAndCausation ==
  WithCorrelationReturned =>
    LET e == op.input.event
        r == op.input.result
    IN  /\ r.eventName = e.eventName
        /\ r.payload = e.payload
        /\ r.metadata.correlationId = op.input.correlationId
        /\ r.metadata.causationId =
             IF op.input.causationId # Undefined THEN op.input.causationId ELSE e.eventId
        /\ op.input.after.payload = e.payload
        /\ op.input.after.metadata = e.metadata

\* C26: withCorrelation(c) was called on a created event and returned an
\* event with the same name and payload, the receiver being as it was
C26_Witness ==
  /\ WithCorrelationReturned
  /\ op.input.event.eventName = "library.book.created"
  /\ op.input.causationId = Undefined
  /\ op.input.result.eventName = "library.book.created"
  /\ op.input.result.payload = op.input.event.payload
  /\ op.input.after = op.input.event

(***************************************************************************)
(* Claims about the command bus (SpecBus)                                  *)
(***************************************************************************)
\* the handler of the first register call for command type c after the last
\* clear in the calls `log`; NoHandler when there is none
FirstRegistered(log, c) ==
  LET clears == {i \in 1..Len(log) : log[i].call = "clear"}
      lastClear == IF clears = {} THEN 0 ELSE CHOOSE i \in clears : \A j \in clears : j <= i
      regs == {i \in (lastClear + 1)..Len(log) :
                 log[i].call = "register" /\ log[i].name = c}
  IN  IF regs = {} THEN NoHandler
      ELSE log[CHOOSE i \in regs : \A j \in regs : i <= j].handler

\* C27: after any sequence of register, clear and execute calls each command
\* type has at most one handler, the one registered first since the last
\* clear: a register for a type that has a handler fails and keeps it, an
\* execute for a type without handler fails, and an execute for a type with
\* a handler invokes exactly that handler with the command.
C27_OneHandlerPerCommandType ==
  /\ \A c \in CommandNames : bus.handlers[c] = FirstRegistered(bus.log, c)
  /\ \A i \in 1..Len(bus.log) :
       LET e == bus.log[i]
           registered == FirstRegistered(SubSeq(bus.log, 1, i - 1), e.name)
       IN  /\ e.call = "register" =>
                e.err = IF registered # NoHandler THEN AlreadyRegisteredError ELSE NoErr
           /\ e.call = "execute" =>
                IF registered = NoHandler THEN e.err = NoHandlerError /\ e.result = NoResult
                ELSE /\ e.err = NoErr
                     /\ e.result = [handler |-> registered, command |-> e.name]

\* C27: a second handler was registered for a type that had one, the call
\* failed, and the command was then executed by the first handler
C27_Witness ==
  /\ Len(bus.log) >= 3
  /\ \E i \in 1..(Len(bus.log) - 2) :
       /\ bus.log[i].call = "register" /\ bus.log[i].err = NoErr
       /\ bus.log[i + 1].call = "register" /\ bus.log[i + 1].name = bus.log[i].name
       /\ bus.log[i + 1].handler # bus.log[i].handler
       /\ bus.log[i + 1].err = AlreadyRegisteredError
       /\ bus.log[i + 2].call = "execute" /\ bus.log[i + 2].name = bus.log[i].name
       /\ bus.log[i + 2].result.handler = bus.log[i].handler

(***************************************************************************)
(* Claims about delete (SpecRepo)                                          *)
(***************************************************************************)
\* nothing of book id is persisted
NothingPersisted(bks, qs, ns, id) ==
  Persisted(bks, qs, ns, id) = [row |-> NoRow, quotes |-> {}, notes |-> {}]

\* C28: after delete(id) no book row, quote row or note row of that id
\* remains; in every step in which a book row disappears its quotes and
\* notes disappear with it; and no persisted state holds a quote or a note
\* whose book row is absent.
C28_DeleteRemovesBookAndChildrenTogether ==
  /\ [](/\ \A r \in quotes \cup notes : books[r.book_id] # NoRow
        /\ op.name = "delete" => NothingPersisted(books, quotes, notes, op.input))
  /\ [][\A id \in BookIds :
          (books[id] # NoRow /\ books'[id] = NoRow) =>
            NothingPersisted(books', quotes', notes', id)]_vars

\* C28: a book persisted with a quote and a note was deleted
C28_Witness ==
  /\ op.name = "delete"
  /\ op.pre # NoBook /\ op.pre.id = op.input
  /\ Len(op.pre.quotes) > 0 /\ Len(op.pre.notes) > 0
  /\ op.pre.version > 0
  /\ NothingPersisted(books, quotes, notes, op.input)

(***************************************************************************)
(* Claims about loaded aggregates (SpecRepo)                               *)
(***************************************************************************)
\* findById has just returned an aggregate
Loaded == op.name = "findById" /\ agg # NoBook

\* the last call was a business method on an aggregate as findById returns
\* it: persisted at least once and with nothing in its outbox
MethodOnLoaded ==
  /\ op.name \in {"updateDetails", "markAsFinished", "addQuote", "removeQuote",
                  "addNote", "removeNote", "Note.updateContent"}
  /\ op.pre.version >= 1 /\ op.pre.domainEvents = <<>>

\* C29: an aggregate returned by findById has an empty outbox and the
\* version of the persisted row, so that after one business method on it
\* the outbox holds only the events that call constructed.
C29_LoadedAggregateHasEmptyOutboxAndRowVersion ==
  /\ Loaded =>
       /\ agg.domainEvents = <<>>
       /\ agg.version = books[op.input.id].version
       /\ agg.id = op.input.id
  /\ MethodOnLoaded =>
       /\ Len(agg.domainEvents) <= 1
       /\ \A i \in 1..Len(agg.domainEvents) : agg.domainEvents[i].eventId = ids.event

\* C29: a book saved with its created event still in the outbox was loaded,
\* then a quote was added: the outbox holds the quote-added event only
C29_Witness ==
  /\ op.name = "addQuote" /\ op.err = NoErr
  /\ op.pre.version >= 1 /\ op.pre.domainEvents = <<>>
  /\ Len(agg.domainEvents) = 1
  /\ agg.domainEvents[1].eventName = "library.book.quote_added"

(***************************************************************************)
(* Claims about value object equality (SpecValue)                          *)
(***************************************************************************)
\* two property values are equal: value objects of either base class by
\* their equals, everything else by ===
RECURSIVE SameValue(_, _)
SameValue(val1, val2) ==
  IF val1.kind = "vo" /\ val2.kind = "vo"
    THEN /\ val1.ctor = val2.ctor
         /\ DOMAIN val1.props = DOMAIN val2.props
         /\ \A key \in DOMAIN val1.props : SameValue(val1.props[key], val2.props[key])
  ELSE IF val1.kind = "simple" /\ val2.kind = "simple"
    THEN val1.ctor = val2.ctor /\ StrictEquals(val1.value, val2.value)
  ELSE StrictEquals(val1, val2)

\* the other object is non-null, of the same constructor, with all properties equal
SameConstructorAndProperties(vo, other) ==
  /\ other.kind = "vo"
  /\ other.ctor = vo.ctor
  /\ DOMAIN other.props = DOMAIN vo.props
  /\ \A key \in DOMAIN vo.props : SameValue(vo.props[key], other.props[key])

EqualsReturned == op.name \in {"ValueObject.equals", "SimpleValueObject.equals"}

\* C30 (as stated): ValueObject.equals holds exactly when the other object is
\* non-null, has the same constructor and has all properties equal (nested
\* value objects compared with equals), so it is reflexive and symmetric;
\* SimpleValueObject.equals holds exactly when the constructor and the
\* wrapped value are equal.
C30_EqualsIsSameConstructorAndProperties ==
  EqualsReturned =>
    LET vo == op.input.vo
        other == op.input.other
    IN  /\ op.name = "ValueObject.equals" =>
             op.input.result = SameConstructorAndProperties(vo, other)
        /\ op.name = "SimpleValueObject.equals" =>
             op.input.result = (/\ other.kind = "simple"
                                /\ other.ctor = vo.ctor
                                /\ other.value = vo.value)
        /\ other = vo => op.input.result
        /\ other.kind \in {"vo", "simple"} => op.input.converse = op.input.result

\* C30: two Money objects built from the same amount and currency are equal,
\* in both directions
C30_Witness ==
  /\ op.name = "ValueObject.equals"
  /\ op.input.other.kind = "vo" /\ op.input.other.ref # op.input.vo.ref
  /\ DOMAIN op.input.vo.props = {"amount", "currency"}
  /\ op.input.other.props = op.input.vo.props
  /\ op.input.other.ctor = op.input.vo.ctor
  /\ op.input.result /\ op.input.converse


(***************************************************************************)
(* Claims about status changes of the aggregate (SpecAgg)                  *)
(***************************************************************************)
\* a call of changeStatus or markAsFinished has just returned or thrown
StatusCall == op.name \in {"changeStatus", "markAsFinished"}

\* C31 (as stated): every change of a Book's status, whether made by
\* changeStatus or by markAsFinished, follows an edge of the allowed-transition
\* table; markAsFinished on a book whose status has no edge to FINISHED
\* (TO_READ, ABANDONED) fails and leaves the state unchanged.
C31_StatusChangesFollowTransitionTable ==
  StatusCall =>
    /\ agg.status # op.pre.status => agg.status \in getAllowedTransitions(op.pre.status)
    /\ (op.name = "markAsFinished" /\ op.pre.status \in {TO_READ, ABANDONED}) =>
         (op.err # NoErr /\ agg = op.pre)

\* C31: markAsFinished with valid arguments has been called on a TO_READ book
C31_Witness ==
  /\ op.name = "markAsFinished"
  /\ op.pre.status = TO_READ
  /\ op.input = [yearRead |-> 2025]


\* C35 (as stated): after any sequence of business methods on a Book (create,
\* updateDetails, changeStatus, markAsFinished), a book whose status is
\* FINISHED has a non-null yearRead.
C35_FinishedBookHasYearRead ==
  (agg # NoBook /\ agg.status = FINISHED) => agg.yearRead # NullN

\* C35: updateDetails has been asked to clear yearRead on a FINISHED book
C35_Witness ==
  /\ op.name = "updateDetails"
  /\ op.pre.status = FINISHED /\ op.pre.yearRead # NullN
  /\ op.input = [yearRead |-> NullN]


(***************************************************************************)
(* Claims about the version after a save (SpecRepo)                        *)
(***************************************************************************)
\* save(agg) has just returned normally
SaveSucceeded == op.name = "save" /\ op.err = NoErr

\* a save of the instance whose save has just succeeded, nothing in between
SecondSave == SaveSucceeded /\ op'.name = "save" /\ op'.pre = agg

\* C34 (as stated): after save(aggregate) succeeds, the in-memory aggregate's
\* version equals the version of the persisted row, so a second save of the
\* same instance with no intervening writer succeeds instead of reporting a
\* conflict.
C34_SavedAggregateCarriesRowVersion ==
  /\ [](SaveSucceeded => agg.version = books[agg.id].version)
  /\ [][SecondSave => op'.err = NoErr]_vars

\* C34: a newly created aggregate has been saved
C34_Witness ==
  /\ SaveSucceeded
  /\ op.pre = agg
  /\ books[agg.id] # NoRow
  /\ Len(agg.domainEvents) = 1 /\ agg.domainEvents[1].eventName = "library.book.created"


(***************************************************************************)
(* Claims about the child rows after a save (SpecRepo).  The tables before *)
(* the save are not kept in the state, so the claim is an action property  *)
(* of the save step.                                                       *)
(***************************************************************************)
\* the step is a save that returned normally
SaveStep == op'.name = "save" /\ op'.err = NoErr

RowIds(rows, bookId) == {r.id : r \in {x \in rows : x.book_id = bookId}}
RowOf(rows, id) == CHOOSE r \in rows : r.id = id

\* the child table `after` the save of `children` of book `bookId`, given the
\* table `before` it: the book's row ids are the aggregate's child ids, a
\* row that existed keeps its created_at and carries the aggregate's content,
\* a new row carries the child's createdAt, other books' rows are untouched
Reconciled(before, after, children, bookId) ==
  /\ RowIds(after, bookId) = IdsOf(children)
  /\ \A i \in 1..Len(children) :
       LET c == children[i]
           r == RowOf(after, c.id)
       IN  /\ Cardinality({x \in after : x.id = c.id}) = 1
           /\ r.content = c.content
           /\ r.created_at = IF c.id \in RowIds(before, bookId)
                             THEN RowOf(before, c.id).created_at ELSE c.createdAt
  /\ {r \in after : r.book_id # bookId} = {r \in before : r.book_id # bookId}

\* C39: after a successful save the persisted quote ids and note ids of the
\* book equal exactly the aggregate's child ids: children absent from the
\* aggregate are deleted, new ones inserted, existing ones updated in place
\* with their stored creation timestamp unchanged, and no child row of
\* another book is touched.
C39_SaveReconcilesChildRows ==
  [][SaveStep =>
       /\ Reconciled(quotes, quotes', agg.quotes, agg.id)
       /\ Reconciled(notes, notes', agg.notes, agg.id)
       /\ \A q \in quotes' : q.book_id = agg.id => q.page = RowOf(SeqToSet(agg.quotes), q.id).page
       /\ \A n \in notes' : n.book_id = agg.id =>
            n.chapter = RowOf(SeqToSet(agg.notes), n.id).chapter]_vars


\* C39: the save of a loaded aggregate whose stored note was given new
\* content, while the book's quote rows are those the aggregate holds
C39_Witness ==
  /\ op.name = "save" /\ op.err = NoErr
  /\ books[agg.id].version >= 2
  /\ Len(agg.notes) = 1 /\ agg.notes[1].content = "n2"
  /\ agg.notes[1].updatedAt > agg.notes[1].createdAt
  /\ RowIds(notes, agg.id) = {agg.notes[1].id}


(***************************************************************************)
(* Claims about the agreement of the read model with the write model       *)
(* (SpecSync)                                                              *)
(***************************************************************************)
\* what the claim compares of a quote
QuoteImage(id, content, page) == [id |-> id, content |-> content, page |-> page]

\* the read document agrees with the row of book `id` and its quote rows
Agrees(id) ==
  LET row == books[id]
      doc == readStore[id]
  IN  /\ doc # NoDoc
      /\ doc.title = row.title
      /\ doc.pageCount = row.page_count
      /\ doc.isbn = row.isbn
      /\ doc.yearRead = row.year_read
      /\ doc.status = row.status
      /\ doc.rating = row.rating
      /\ doc.coverUrl = row.cover_url
      /\ {QuoteImage(doc.quotes[i].id, doc.quotes[i].content, doc.quotes[i].page) :
            i \in 1..Len(doc.quotes)}
         = {QuoteImage(r.id, r.content, r.page) : r \in {x \in quotes : x.book_id = id}}

\* C36 (as stated): in a quiescent state where every published event has been
\* delivered exactly once in publish order and applied, each book's read
\* document agrees with its write-model row on title, pageCount, isbn,
\* yearRead, status, rating, coverUrl and the set of quotes.
C36_ReadDocumentAgreesWithRow ==
  Quiescent => \A id \in BookIds : books[id] # NoRow => Agrees(id)

\* C36: a book created with a rating and a cover, its event applied, at rest
C36_Witness ==
  /\ Quiescent
  /\ hist.committed # {} /\ hist.committed = hist.applied
  /\ books[1] # NoRow /\ books[1].rating = 5 /\ books[1].cover_url = "c1"
  /\ readStore[1] # NoDoc


(***************************************************************************)
(* Claims about concurrent commands on one book (SpecRace).  For two       *)
(* executions that wrote the same book, the one whose aggregate carries    *)
(* the lower version committed first.                                      *)
(***************************************************************************)
\* execution x has committed its write and has not yet published its events
CommittedUnpublished(x) ==
  h[x].pc = "publish" /\ Len(h[x].book.domainEvents) > 0

\* the step publishes the events of execution y
Publishes(y) ==
  /\ h[y].pc = "publish" /\ Len(h[y].book.domainEvents) > 0
  /\ h'[y].pc = "done" /\ h'[y].err = NoErr

\* x committed before y on the same book
CommittedBefore(x, y) ==
  /\ x # y
  /\ h[x].book.id = h[y].book.id
  /\ h[x].book.version < h[y].book.version

\* C33 (as stated): for two commands on the same book whose writes commit in
\* the order c1 then c2, the events of c1 are published before the events of
\* c2 under every interleaving of the two handlers, so the read model never
\* ends with the older change applied last.
C33_EventsPublishedInCommitOrder ==
  /\ [][\A y \in Handlers : Publishes(y) =>
          ~\E x \in Handlers : CommittedUnpublished(x) /\ CommittedBefore(x, y)]_vars
  /\ [](Quiescent =>
          \A id \in BookIds : (books[id] # NoRow /\ readStore[id] # NoDoc) =>
             /\ readStore[id].title = books[id].title
             /\ readStore[id].status = books[id].status)

\* C33: two updates of one book have committed one after the other and both
\* were published, delivered and applied
C33_Witness ==
  /\ Quiescent
  /\ h["h1"].cmd.kind = "update" /\ h["h2"].cmd.kind = "update"
  /\ h["h1"].written /\ h["h2"].written
  /\ h["h1"].err = NoErr /\ h["h2"].err = NoErr
  /\ CommittedBefore("h1", "h2")
  /\ hist.committed = hist.applied
  /\ readStore[h["h1"].book.id] # NoDoc


\* the DELETE of execution x is about to run on a row that another command
\* has written since x loaded the book
StaleDelete(x) ==
  /\ h[x].cmd.kind = "delete" /\ h[x].pc = "tx_commit"
  /\ books[h[x].cmd.id] # NoRow
  /\ books[h[x].cmd.id].version # h[x].row.version

\* execution x takes its next step
Steps(x) == h'[x] # h[x]

\* C32 (as stated): a DeleteBook command never silently clobbers a concurrent
\* writer: if another command commits a new version of the book between the
\* delete handler's load and its delete, the delete fails with a concurrency
\* conflict instead of removing the row and publishing a BookDeletedEvent
\* built from the stale snapshot.
C32_DeleteOfStaleSnapshotConflicts ==
  [][\A x \in Handlers : (StaleDelete(x) /\ Steps(x)) =>
        /\ h'[x].pc = "done" /\ h'[x].err = ConflictError
        /\ books' = books]_vars

\* C32: an update committed version 2 after the delete handler had loaded
\* version 1; the delete has run
C32_Witness ==
  \E x \in Handlers : \E y \in Handlers \ {x} :
    /\ h[x].cmd.kind = "delete" /\ h[x].pc \in {"publish", "done"} /\ h[x].written
    /\ h[y].cmd.kind = "update" /\ h[y].written /\ h[y].err = NoErr
    /\ h[y].book.id = h[x].cmd.id
    /\ h[y].book.version = h[x].row.version

\* the DELETE of execution x is about to run and the row is already gone
DeleteOfMissingRow(x) ==
  /\ h[x].cmd.kind = "delete" /\ h[x].pc = "tx_commit"
  /\ books[h[x].cmd.id] = NoRow

\* execution x has deleted book `id` and published the BookDeletedEvent
PublishedDeletion(x, id) ==
  /\ h[x].cmd.kind = "delete" /\ h[x].cmd.id = id
  /\ h[x].pc = "done" /\ h[x].err = NoErr /\ h[x].written

\* C38 (as stated): for each deleted book exactly one BookDeletedEvent is
\* published, also when two DeleteBook commands for the same id run
\* concurrently: the command that does not remove the row fails and
\* publishes nothing.
C38_OneDeletedEventPerBook ==
  /\ [](\A id \in BookIds :
          Cardinality({x \in Handlers : PublishedDeletion(x, id)}) <= 1)
  /\ [][\A x \in Handlers : (DeleteOfMissingRow(x) /\ Steps(x)) =>
          (h'[x].pc = "done" /\ h'[x].err # NoErr /\ queue' = queue)]_vars

\* C38: two DeleteBook commands for one book have both loaded it, and both
\* have run their DELETE
C38_Witness ==
  /\ h["h1"].cmd.kind = "delete" /\ h["h2"].cmd.kind = "delete"
  /\ h["h1"].cmd.id = h["h2"].cmd.id
  /\ h["h1"].written /\ h["h2"].written
  /\ h["h1"].row.version = h["h2"].row.version
  /\ books[h["h1"].cmd.id] = NoRow


(***************************************************************************)
(* Claims about ISBN uniqueness (SpecCreate)                               *)
(***************************************************************************)
\* the ISBN of the CreateBook command of execution x, in the formatting the
\* caller chose, denotes the ISBN of a persisted book
DenotesExistingIsbn(x) ==
  /\ h[x].cmd.kind = "create" /\ Has(h[x].cmd.arg, "isbn")
  /\ \E i \in BookIds :
       books[i] # NoRow /\ books[i].isbn = IsbnNormalize(h[x].cmd.arg.isbn)

\* C37 (as stated): after any sequence or interleaving of CreateBook commands
\* no two persisted books have the same ISBN: a CreateBook whose ISBN, in any
\* accepted formatting (with or without dashes or spaces), denotes the ISBN
\* of an existing book is rejected and persists nothing.
C37_NoTwoBooksShareAnIsbn ==
  /\ [](\A i \in BookIds : \A j \in BookIds \ {i} :
          (books[i] # NoRow /\ books[j] # NoRow /\ books[i].isbn # NullS)
            => books[i].isbn # books[j].isbn)
  /\ [][\A x \in Handlers : (DenotesExistingIsbn(x) /\ h'[x] # h[x]) =>
          (books' = books /\ h'[x].pc # "publish")]_vars

\* C37: a CreateBook with the ISBN written with a dash has run to its end
\* while a book with the same ISBN was stored
C37_Witness ==
  \E x \in Handlers :
    /\ h[x].cmd.kind = "create" /\ h[x].cmd.arg.isbn = "978-1"
    /\ h[x].pc = "done"
    /\ \E i \in BookIds : books[i] # NoRow /\ books[i].isbn = "9781" /\ i # h[x].book.id


(***************************************************************************)
(* Claims about the broker connection (SpecConn)                           *)
(***************************************************************************)
\* the step returns a channel to caller c
Obtains(c) == mq'.calls[c] # mq.calls[c] /\ mq'.calls[c].pc = "returned"

\* C40 (as stated): any number of repeated or concurrently started
\* connectRabbitMQ calls leave the process with at most one open broker
\* connection and one channel, every caller obtains that same channel, and
\* after the connection closes getChannel fails (and healthCheck is false)
\* until a new connect completes.
C40_OneConnectionOneChannel ==
  /\ [](Cardinality(mq.open) <= 1)
  /\ [][\A c \in Callers : Obtains(c) => mq'.open = {mq'.calls[c].result}]_vars
  /\ [](mq.open = {} => (getChannelThrows /\ ~rabbitHealthCheck))

\* C40: two connectRabbitMQ calls were started before either had set the
\* channel, and both have returned
C40_Witness ==
  /\ mq.calls["c1"].pc = "returned" /\ mq.calls["c2"].pc = "returned"
  /\ mq.opened = 2
  /\ mq.calls["c1"].result # NullRef /\ mq.calls["c2"].result # NullRef

=============================================================================
